---- MODULE Spec2Model ----
(***************************************************************************)
(* Progressive-overload core of the workout tracker: the progression       *)
(* engine (lib/progression.ts, both copies kept in the repository) and the *)
(* history summarizer (lib/history.ts).  The core is a library of pure     *)
(* functions, so a state is one invocation: the arguments handed over by   *)
(* the caller and, once the call has returned, its result.  The local     *)
(* database (lib/db.ts) is modelled by its tables, in two specifications   *)
(* of their own: the exercise and routine tables, and the session and      *)
(* set-entry tables.                                                       *)
(*                                                                         *)
(* Numbers are integers: weights and weightIncrement are in the caller's   *)
(* smallest plate step, so workingWeight + weightIncrement is exact.  An   *)
(* estimated one-rep-max is a double that need not be exact: it is written *)
(* as three times its exact 30-fold plus the direction in which the double *)
(* arithmetic rounded it.  The human-readable message of a suggestion is   *)
(* not modelled.                                                           *)
(***************************************************************************)
EXTENDS Integers, Sequences, FiniteSets

VARIABLES
    pc,        \* "idle" (no call made yet), "returned" (a call has returned)
               \* or "returnedAgain" (so has its repetition by a second flow)
    op,        \* the exported function that was invoked
    copy,      \* the copy of lib/progression.ts that served the call
    settings,  \* its ProgressionSettings argument
    sets,      \* its SetLike[] argument
    sessions,  \* the SessionWithSets[] argument of summarizeExerciseHistory
    operands,  \* the <<weight, reps>> arguments of calculateEstimatedOneRepMax
    snapshot,  \* the caller's own copy of the arguments, taken before the call
    result,    \* the value it returned
    again      \* the value a second flow got from the same argument objects

coreVars == <<pc, op, copy, settings, sets, sessions, operands, snapshot, result, again>>

\* The local database (db.ts): its tables, and what the model remembers of
\* the calls made on it.
VARIABLES
    exercises,   \* table exercises: a set of records, one per id
    routines,    \* table routines
    dbSessions,  \* table sessions
    setEntries,  \* table setEntries
    nextId,      \* per table, how many ids createId has handed out, plus one
    now,         \* the wall clock, in milliseconds
    calls,       \* how many writing calls were made on exercises and routines
    dbOp,        \* the last of these calls
    dbOpBefore,  \* the call before it
    dbBefore,    \* the two tables as they were before the last call
    listing      \* what listExerciseHistory or addSetWithPrefill returned,
                 \* until the next write

dbVars == <<exercises, routines, dbSessions, setEntries, nextId, now, calls,
            dbOp, dbOpBefore, dbBefore, listing>>
\* The browser's local storage and the calls that run as asynchronous steps.
VARIABLES
    localStorage,   \* the stored items: a function from the keys present to strings
    lastWrite,      \* the routine id given to the latest writeSelectedRoutineId
    ioResult,       \* what the latest call on local storage or import returned
    tx,             \* the import transaction: its step and its working tables
    tasks           \* the set-adding calls in flight, each with what it read

ioVars == <<localStorage, lastWrite, ioResult, tx, tasks>>

vars == <<coreVars, dbVars, ioVars>>

(***************************************************************************)
(* Bounds of the explored inputs.                                          *)
(***************************************************************************)
\* the most set records a caller hands over in one call
MaxSets == 2

Weights == {30, 31}
RepCounts == {0, 1, 2}
RepBounds == {1, 2}
\* up to one more than the input can hold, so that a full input can fall short
WorkSetsTargets == 1..(MaxSets + 1)
HistoryRepCounts == {0, 1}
\* arguments of a direct call of calculateEstimatedOneRepMax
OneRepMaxWeights == {0, 20, 30, 31}
OneRepMaxRepCounts == {0, 1, 2, 15}
SessionCounts == 0..3
WeightIncrements == {1}
Undefined == "undefined"
CompletedAtValues == {Undefined, "2026-02-16T00:00:00.000Z"}
EndedAtValues == {Undefined, "2026-02-16T01:00:00.000Z"}

SetLike == [weight : Weights, reps : RepCounts, isWarmup : BOOLEAN,
            completedAt : CompletedAtValues]

SeqsUpTo(S, n) == UNION {[1..k -> S] : k \in 0..n}

\* ProgressionSettings as the screens store them: repMin >= 1,
\* repMax >= repMin, workSetsTarget >= 1, weightIncrement > 0.
ProgressionSettings ==
    {s \in [repMin : RepBounds, repMax : RepBounds,
            workSetsTarget : WorkSetsTargets, weightIncrement : WeightIncrements,
            unit : {"lb"}] : s.repMin <= s.repMax}

NoSettings == [repMin |-> 1, repMax |-> 1, workSetsTarget |-> 1,
               weightIncrement |-> 1, unit |-> "lb"]

\* SetEntry as lib/history.ts reads it; id is the record's identity
SetEntryFields == [weight : Weights, reps : HistoryRepCounts, isWarmup : BOOLEAN]

NoResult == [kind |-> "none"]
NoTransaction == [step |-> "none"]
Null == [kind |-> "null"]

(***************************************************************************)
(* Array helpers with JavaScript's semantics.                              *)
(***************************************************************************)
Min2(a, b) == IF a <= b THEN a ELSE b

\* Boolean(value) of an optional string: undefined and '' are falsy.
Truthy(value) == value # Undefined /\ value # ""

\* seq.slice(0, n) for n >= 0
SliceFromStart(seq, n) == SubSeq(seq, 1, Min2(n, Len(seq)))

\* Math.min(...seq) of a non-empty sequence
MinOf(seq) == CHOOSE m \in {seq[i] : i \in 1..Len(seq)} :
                  \A i \in 1..Len(seq) : m <= seq[i]

\* seq.findIndex(P) for the predicate "reps < cap": 0-based, -1 when absent
FindIndexBelow(seq, cap) ==
    IF \E i \in 1..Len(seq) : seq[i].reps < cap
    THEN (CHOOSE i \in 1..Len(seq) :
              /\ seq[i].reps < cap
              /\ \A j \in 1..(i - 1) : ~(seq[j].reps < cap)) - 1
    ELSE -1

\* mutant: the warm-up filter is forgotten
IsWorkSetAnySet(set) == TRUE

IsWorkSet(set) == ~set.isWarmup

\* mutant: a work set counts whether or not it was completed
IsCompletedWorkSetIgnoringCompletedAt(set) == ~set.isWarmup

IsCompletedWorkSet(set) == ~set.isWarmup /\ Truthy(set.completedAt)

(***************************************************************************)
(* lib/progression.ts                                                      *)
(***************************************************************************)
\* mutant: every work set must be completed, not only the first workSetsTarget
isExerciseCompleteAllWorkSets(cfg, ss) ==
    LET workSets == SelectSeq(ss, IsWorkSet)
    IN  IF Len(workSets) < cfg.workSetsTarget
        THEN FALSE
        ELSE \A i \in 1..Len(workSets) : Truthy(workSets[i].completedAt)

\* mutant: enough work sets make the exercise complete, done or not
isExerciseCompleteCountsOnly(cfg, ss) ==
    Len(SelectSeq(ss, IsWorkSet)) >= cfg.workSetsTarget

isExerciseComplete(cfg, ss) ==
    LET workSets == SelectSeq(ss, IsWorkSet)
    IN  IF Len(workSets) < cfg.workSetsTarget
        THEN FALSE
        ELSE \A i \in 1..Len(SliceFromStart(workSets, cfg.workSetsTarget)) :
                 Truthy(SliceFromStart(workSets, cfg.workSetsTarget)[i].completedAt)

\* mutant: the input is cut to workSetsTarget sets before it is filtered
completedWorkSetsOfSliceFirst(cfg, ss) ==
    SelectSeq(SliceFromStart(ss, cfg.workSetsTarget), IsCompletedWorkSet)

completedWorkSetsOf(cfg, ss) ==
    SliceFromStart(SelectSeq(ss, IsCompletedWorkSet), cfg.workSetsTarget)

\* mutant: the reps are nudged as add_reps nudges them
collectMoreSetsBumped(completedWorkSets) ==
    [kind |-> "collect_more_sets",
     suggestedWeight |-> completedWorkSets[1].weight,
     nextReps |-> [i \in 1..Len(completedWorkSets) |-> completedWorkSets[i].reps + 1]]

\* mutant: the weight is taken from the last considered set
collectMoreSetsLastWeight(completedWorkSets) ==
    [kind |-> "collect_more_sets",
     suggestedWeight |-> completedWorkSets[Len(completedWorkSets)].weight,
     nextReps |-> [i \in 1..Len(completedWorkSets) |-> completedWorkSets[i].reps]]

collectMoreSets(completedWorkSets) ==
    [kind |-> "collect_more_sets",
     suggestedWeight |-> completedWorkSets[1].weight,
     nextReps |-> [i \in 1..Len(completedWorkSets) |-> completedWorkSets[i].reps]]

allAtSameWeight(completedWorkSets) ==
    \A i \in 1..Len(completedWorkSets) :
        completedWorkSets[i].weight = completedWorkSets[1].weight

\* mutant: some instead of every
allHitRepCapSome(cfg, completedWorkSets) ==
    \E i \in 1..Len(completedWorkSets) : completedWorkSets[i].reps >= cfg.repMax

allHitRepCap(cfg, completedWorkSets) ==
    \A i \in 1..Len(completedWorkSets) : completedWorkSets[i].reps >= cfg.repMax

\* mutant: the reps stay at the cap instead of restarting at repMin
increaseWeightKeepsCap(cfg, completedWorkSets) ==
    [kind |-> "increase_weight",
     suggestedWeight |-> completedWorkSets[1].weight + cfg.weightIncrement,
     nextReps |-> [i \in 1..Len(completedWorkSets) |-> cfg.repMax]]

increaseWeight(cfg, completedWorkSets) ==
    [kind |-> "increase_weight",
     suggestedWeight |-> completedWorkSets[1].weight + cfg.weightIncrement,
     nextReps |-> [i \in 1..Len(completedWorkSets) |-> cfg.repMin]]

\* mutant: no set is bumped
addRepsFirstBelowMaxSkipped(cfg, completedWorkSets) ==
    [kind |-> "add_reps",
     suggestedWeight |-> completedWorkSets[1].weight,
     nextReps |-> [i \in 1..Len(completedWorkSets) |-> completedWorkSets[i].reps]]

\* add_reps of the copy that bumps the first set below repMax
addRepsFirstBelowMax(cfg, completedWorkSets) ==
    LET firstSetBelowMaxIndex == FindIndexBelow(completedWorkSets, cfg.repMax)
    IN  [kind |-> "add_reps",
         suggestedWeight |-> completedWorkSets[1].weight,
         nextReps |->
             [i \in 1..Len(completedWorkSets) |->
                 IF firstSetBelowMaxIndex >= 0 /\ i = firstSetBelowMaxIndex + 1
                 THEN Min2(completedWorkSets[i].reps + 1, cfg.repMax)
                 ELSE completedWorkSets[i].reps]]

\* mutant: the nudge is not capped at repMax
addRepsLowestRepUncapped(cfg, completedWorkSets) ==
    LET lowestRep == MinOf([i \in 1..Len(completedWorkSets) |->
                               completedWorkSets[i].reps])
    IN  [kind |-> "add_reps",
         suggestedWeight |-> completedWorkSets[1].weight,
         nextReps |->
             [i \in 1..Len(completedWorkSets) |->
                 IF completedWorkSets[i].reps = lowestRep
                 THEN completedWorkSets[i].reps + 1
                 ELSE completedWorkSets[i].reps]]

\* add_reps of the copy that bumps every set tied at the lowest reps
addRepsLowestRep(cfg, completedWorkSets) ==
    LET lowestRep == MinOf([i \in 1..Len(completedWorkSets) |->
                               completedWorkSets[i].reps])
    IN  [kind |-> "add_reps",
         suggestedWeight |-> completedWorkSets[1].weight,
         nextReps |->
             [i \in 1..Len(completedWorkSets) |->
                 IF completedWorkSets[i].reps = lowestRep
                 THEN Min2(completedWorkSets[i].reps + 1, cfg.repMax)
                 ELSE completedWorkSets[i].reps]]

Copies == {"firstBelowMax", "lowestRep"}

buildProgressionSuggestion(which, cfg, ss) ==
    LET completedWorkSets == completedWorkSetsOf(cfg, ss)
    IN  IF Len(completedWorkSets) = 0
        THEN Null
        ELSE IF Len(completedWorkSets) < cfg.workSetsTarget
        THEN collectMoreSets(completedWorkSets)
        ELSE IF allAtSameWeight(completedWorkSets) /\ allHitRepCap(cfg, completedWorkSets)
        THEN increaseWeight(cfg, completedWorkSets)
        ELSE IF which = "firstBelowMax"
        THEN addRepsFirstBelowMax(cfg, completedWorkSets)
        ELSE addRepsLowestRep(cfg, completedWorkSets)

(***************************************************************************)
(* lib/history.ts                                                          *)
(***************************************************************************)
OneRepMaxScale == 30

\* The direction in which weight * (1 + reps / 30), evaluated in IEEE-754
\* doubles as JavaScript does (reps / 30, then 1 + ..., then weight * ...),
\* ends off the exact value, for the arguments the model draws:
\*   20 * (1 + 1/30) = 20.666666666666668   (above 62/3)
\*   20 * (1 + 2/30) = 21.333333333333332   (below 64/3)
\*   30 * (1 + 1/30) = 31.000000000000004   (above 31)
\*   31 * (1 + 1/30) = 32.03333333333334    (above 961/30)
\*   31 * (1 + 2/30) = 33.06666666666666    (below 992/30)
\* and exact for weight 0, for reps 0, 15, and for 30 * (1 + 2/30) = 32.
OneRepMaxRounding(weight, reps) ==
    IF <<weight, reps>> \in {<<20, 1>>, <<30, 1>>, <<31, 1>>} THEN 1
    ELSE IF <<weight, reps>> \in {<<20, 2>>, <<31, 2>>} THEN -1
    ELSE 0

\* the exact value of weight * (1 + reps / 30), as the model writes doubles
ExactOneRepMax(weight, reps) == 3 * weight * (OneRepMaxScale + reps)

\* mutant: the parentheses are lost, weight * 1 + reps / 30
calculateEstimatedOneRepMaxNoParentheses(weight, reps) ==
    3 * (weight * OneRepMaxScale + reps)

calculateEstimatedOneRepMax(weight, reps) ==
    ExactOneRepMax(weight, reps) + OneRepMaxRounding(weight, reps)

RECURSIVE pickBestSetFrom(_, _, _, _)
pickBestSetFrom(entries, i, best, bestScore) ==
    IF i > Len(entries)
    THEN best
    ELSE LET score == calculateEstimatedOneRepMax(entries[i].weight, entries[i].reps)
         IN  IF best = Null \/ score > bestScore
             THEN pickBestSetFrom(entries, i + 1, entries[i], score)
             ELSE pickBestSetFrom(entries, i + 1, best, bestScore)

\* mutant: score >= bestScore, the last of several tied sets wins
RECURSIVE pickBestSetFromLastOnTie(_, _, _, _)
pickBestSetFromLastOnTie(entries, i, best, bestScore) ==
    IF i > Len(entries)
    THEN best
    ELSE LET score == calculateEstimatedOneRepMax(entries[i].weight, entries[i].reps)
         IN  IF best = Null \/ score >= bestScore
             THEN pickBestSetFromLastOnTie(entries, i + 1, entries[i], score)
             ELSE pickBestSetFromLastOnTie(entries, i + 1, best, bestScore)

pickBestSetLastOnTie(entries) == pickBestSetFromLastOnTie(entries, 1, Null, 0)

\* mutant: the first set is taken, whatever its score
pickBestSetTakingFirst(entries) ==
    IF Len(entries) = 0 THEN Null ELSE entries[1]

pickBestSet(entries) == pickBestSetFrom(entries, 1, Null, 0)

sessionMetric(item) ==
    LET workSets == SelectSeq(item.sets, IsWorkSet)
        bestSet == pickBestSet(workSets)
    IN  [sessionId |-> item.session.id,
         endedAt |-> IF item.session.endedAt = Undefined THEN ""
                     ELSE item.session.endedAt,
         bestSet |-> bestSet,
         bestEstimatedOneRepMax |->
             IF bestSet # Null
             THEN calculateEstimatedOneRepMax(bestSet.weight, bestSet.reps)
             ELSE 0]

\* mutant: sessions still in progress are kept
HasEndedAtAlways(metric) == TRUE

HasEndedAt(metric) == metric.endedAt # ""
HasBestSet(metric) == metric.bestSet # Null

\* mutant: bestRecentSet is the best set of the most recent retained session
summarizeExerciseHistoryBestOfNewest(items) ==
    LET metrics == SelectSeq([i \in 1..Len(items) |-> sessionMetric(items[i])],
                             HasEndedAt)
    IN  [kind |-> "summary",
         sessions |-> metrics,
         bestRecentSet |-> IF Len(metrics) >= 1 THEN metrics[1].bestSet ELSE Null,
         trendDeltaOneRepMax |->
             IF Len(metrics) >= 2
             THEN metrics[1].bestEstimatedOneRepMax
                      - metrics[Len(metrics)].bestEstimatedOneRepMax
             ELSE 0]

\* mutant: the trend is taken oldest minus newest
summarizeExerciseHistoryTrendReversed(items) ==
    LET metrics == SelectSeq([i \in 1..Len(items) |-> sessionMetric(items[i])],
                             HasEndedAt)
        withBest == SelectSeq(metrics, HasBestSet)
    IN  [kind |-> "summary",
         sessions |-> metrics,
         bestRecentSet |->
             pickBestSet([i \in 1..Len(withBest) |-> withBest[i].bestSet]),
         trendDeltaOneRepMax |->
             IF Len(metrics) >= 2
             THEN metrics[Len(metrics)].bestEstimatedOneRepMax
                      - metrics[1].bestEstimatedOneRepMax
             ELSE 0]

\* mutant: the newest retained session is read before looking whether there
\* is one, which throws on an empty list
summarizeExerciseHistoryReadsNewest(items) ==
    LET metrics == SelectSeq([i \in 1..Len(items) |-> sessionMetric(items[i])],
                             HasEndedAt)
        withBest == SelectSeq(metrics, HasBestSet)
    IN  IF Len(metrics) = 0
        THEN [kind |-> "TypeError"]
        ELSE [kind |-> "summary",
              sessions |-> metrics,
              bestRecentSet |->
                  pickBestSet([i \in 1..Len(withBest) |-> withBest[i].bestSet]),
              trendDeltaOneRepMax |->
                  metrics[1].bestEstimatedOneRepMax
                      - metrics[Len(metrics)].bestEstimatedOneRepMax]

\* The difference of two estimates is the difference of their written
\* values: doubles this close subtract without a further rounding.
summarizeExerciseHistory(items) ==
    LET metrics == SelectSeq([i \in 1..Len(items) |-> sessionMetric(items[i])],
                             HasEndedAt)
        withBest == SelectSeq(metrics, HasBestSet)
    IN  [kind |-> "summary",
         sessions |-> metrics,
         bestRecentSet |->
             pickBestSet([i \in 1..Len(withBest) |-> withBest[i].bestSet]),
         trendDeltaOneRepMax |->
             IF Len(metrics) >= 2
             THEN metrics[1].bestEstimatedOneRepMax
                      - metrics[Len(metrics)].bestEstimatedOneRepMax
             ELSE 0]

\* What a call leaves in the objects it was handed.  Neither copy of the
\* engine nor the summarizer assigns to a parameter, a property or an
\* element: filter, slice and map build new arrays, every, findIndex and the
\* spread into Math.min only read.
settingsAfterCall(cfg) == cfg

\* mutant: slice written as splice on the argument, the first workSetsTarget
\* sets are removed from the caller's list
setsAfterCallSpliced(cfg, ss) ==
    SubSeq(ss, Min2(cfg.workSetsTarget, Len(ss)) + 1, Len(ss))

setsAfterCall(cfg, ss) == ss

sessionsAfterCall(items) == items

NoSnapshot == [settings |-> NoSettings, sets |-> << >>, sessions |-> << >>]

\* the value of a call, by the name of the function called
ResultOf(name, which, cfg, ss, items, numbers) ==
    CASE name = "calculateEstimatedOneRepMax" ->
             [kind |-> "number",
              value |-> calculateEstimatedOneRepMax(numbers[1], numbers[2])]
      [] name = "isExerciseComplete" ->
             [kind |-> "boolean", value |-> isExerciseComplete(cfg, ss)]
      [] name = "buildProgressionSuggestion" ->
             buildProgressionSuggestion(which, cfg, ss)
      [] name = "summarizeExerciseHistory" ->
             summarizeExerciseHistory(items)

(***************************************************************************)
(* The invocations.  The core keeps no state between calls: the caller     *)
(* hands over a snapshot, the function returns, and the next call starts   *)
(* from scratch.                                                           *)
(***************************************************************************)
Init ==
    /\ pc = "idle"
    /\ op = "none"
    /\ copy = "none"
    /\ settings = NoSettings
    /\ sets = << >>
    /\ sessions = << >>
    /\ operands = << >>
    /\ snapshot = NoSnapshot
    /\ result = NoResult
    /\ again = NoResult
    /\ exercises = {}
    /\ routines = {}
    /\ dbSessions = {}
    /\ setEntries = {}
    /\ nextId = [exercises |-> 1, routines |-> 1, sessions |-> 1, setEntries |-> 1]
    /\ now = 1
    /\ calls = 0
    /\ dbOp = "none"
    /\ dbOpBefore = "none"
    /\ dbBefore = [exercises |-> {}, routines |-> {}]
    /\ listing = NoResult
    /\ localStorage = << >>
    /\ lastWrite = "never"
    /\ ioResult = NoResult
    /\ tx = NoTransaction
    /\ tasks = {}

CalculateEstimatedOneRepMax ==
    /\ pc = "idle"
    /\ \E weight \in OneRepMaxWeights, reps \in OneRepMaxRepCounts :
           /\ operands' = <<weight, reps>>
           /\ result' = ResultOf("calculateEstimatedOneRepMax", copy, settings,
                                 sets, sessions, <<weight, reps>>)
    /\ op' = "calculateEstimatedOneRepMax"
    /\ pc' = "returned"
    /\ UNCHANGED <<copy, settings, sets, sessions, snapshot, again, dbVars, ioVars>>

IsExerciseComplete ==
    /\ pc = "idle"
    /\ \E cfg \in ProgressionSettings, ss \in SeqsUpTo(SetLike, MaxSets) :
           /\ snapshot' = [settings |-> cfg, sets |-> ss, sessions |-> sessions]
           /\ settings' = settingsAfterCall(cfg)
           /\ sets' = setsAfterCall(cfg, ss)
           /\ result' = ResultOf("isExerciseComplete", copy, cfg, ss, sessions,
                                 operands)
    /\ op' = "isExerciseComplete"
    /\ pc' = "returned"
    /\ UNCHANGED <<copy, sessions, operands, again, dbVars, ioVars>>

BuildProgressionSuggestion ==
    /\ pc = "idle"
    /\ \E which \in Copies, cfg \in ProgressionSettings,
          ss \in SeqsUpTo(SetLike, MaxSets) :
           /\ copy' = which
           /\ snapshot' = [settings |-> cfg, sets |-> ss, sessions |-> sessions]
           /\ settings' = settingsAfterCall(cfg)
           /\ sets' = setsAfterCall(cfg, ss)
           /\ result' = ResultOf("buildProgressionSuggestion", which, cfg, ss,
                                 sessions, operands)
    /\ op' = "buildProgressionSuggestion"
    /\ pc' = "returned"
    /\ UNCHANGED <<sessions, operands, again, dbVars, ioVars>>

\* The history handed over: count sessions, the k-th set record of the call
\* belonging to session sessionOf[k], records of one session in index order.
HistoryOf(count, endedAts, entries, sessionOf) ==
    [i \in 1..count |->
        [session |-> [id |-> i, endedAt |-> endedAts[i]],
         sets |->
             LET mine == {k \in 1..Len(entries) : sessionOf[k] = i}
             IN  [n \in 1..Cardinality(mine) |->
                     LET k == CHOOSE k \in mine :
                                  Cardinality({j \in mine : j <= k}) = n
                     IN  [id |-> k, index |-> n - 1,
                          weight |-> entries[k].weight,
                          reps |-> entries[k].reps,
                          isWarmup |-> entries[k].isWarmup]]]]

SummarizeExerciseHistory ==
    /\ pc = "idle"
    /\ \E count \in SessionCounts, entries \in SeqsUpTo(SetEntryFields, MaxSets) :
          \E endedAts \in [1..count -> EndedAtValues],
             sessionOf \in [1..Len(entries) -> 1..count] :
           /\ \A k \in 1..(Len(entries) - 1) : sessionOf[k] <= sessionOf[k + 1]
           /\ LET items == HistoryOf(count, endedAts, entries, sessionOf)
              IN  /\ snapshot' = [settings |-> settings, sets |-> sets,
                                  sessions |-> items]
                  /\ sessions' = sessionsAfterCall(items)
                  /\ result' = ResultOf("summarizeExerciseHistory", copy,
                                        settings, sets, items, operands)
    /\ op' = "summarizeExerciseHistory"
    /\ pc' = "returned"
    /\ UNCHANGED <<copy, settings, sets, operands, again, dbVars, ioVars>>

\* A second flow that holds the same argument objects makes the same call
\* after the first one returned: calls are synchronous, so two flows never
\* run inside the core at once.
CallAgain ==
    /\ pc = "returned"
    /\ again' = ResultOf(op, copy, settings, sets, sessions, operands)
    /\ settings' = (IF settings = NoSettings THEN settings
                    ELSE settingsAfterCall(settings))
    /\ sets' = (IF settings = NoSettings THEN sets
                ELSE setsAfterCall(settings, sets))
    /\ sessions' = sessionsAfterCall(sessions)
    /\ pc' = "returnedAgain"
    /\ UNCHANGED <<op, copy, operands, snapshot, result, dbVars, ioVars>>

\* The caller drops the result and is free to call again.
Discard ==
    /\ pc \in {"returned", "returnedAgain"}
    /\ pc' = "idle"
    /\ op' = "none"
    /\ copy' = "none"
    /\ settings' = NoSettings
    /\ sets' = << >>
    /\ sessions' = << >>
    /\ operands' = << >>
    /\ snapshot' = NoSnapshot
    /\ result' = NoResult
    /\ again' = NoResult
    /\ UNCHANGED <<dbVars, ioVars>>

Next ==
    \/ CalculateEstimatedOneRepMax
    \/ IsExerciseComplete
    \/ BuildProgressionSuggestion
    \/ SummarizeExerciseHistory
    \/ CallAgain
    \/ Discard

Spec == Init /\ [][Next]_vars

(***************************************************************************)
(* The exercise and routine tables (db.ts).  Ids are the strings createId  *)
(* returns, random and never reused, written as the count of ids handed    *)
(* out for the table.  A table is the set of its records; toArray lists it *)
(* in the order of the random ids, which is any order.  An exercise's      *)
(* equipment and progressionSettings are not modelled: nothing below reads *)
(* them.                                                                   *)
(***************************************************************************)
MaxDbCalls == 3

Units == {"lb", "kg"}

coreRoutineTemplates ==
    << [name |-> "Push",
        exerciseNames |-> <<"Barbell Bench Press", "Overhead Press",
                            "Incline Dumbbell Press", "Lateral Raise",
                            "Triceps Pushdown">>],
       [name |-> "Pull",
        exerciseNames |-> <<"Barbell Row", "Lat Pulldown", "Seated Cable Row",
                            "Face Pull", "Dumbbell Curl">>],
       [name |-> "Legs",
        exerciseNames |-> <<"Back Squat", "Romanian Deadlift", "Leg Press",
                            "Leg Curl", "Calf Raise">>] >>

\* names a caller gives an exercise and a routine
UserExerciseNames == {"back squat"}
UserRoutineNames == {"push", "Legs ", "Upper"}

\* String.prototype.trim, on the names of the model
trim(name) == IF name = "Legs " THEN "Legs" ELSE name

\* String.prototype.toLowerCase, on the names of the model
toLowerCase(name) ==
    CASE name = "Push" -> "push"
      [] name = "Pull" -> "pull"
      [] name = "Legs" -> "legs"
      [] name = "Legs " -> "legs "
      [] name = "Upper" -> "upper"
      [] name = "Barbell Bench Press" -> "barbell bench press"
      [] name = "Overhead Press" -> "overhead press"
      [] name = "Incline Dumbbell Press" -> "incline dumbbell press"
      [] name = "Lateral Raise" -> "lateral raise"
      [] name = "Triceps Pushdown" -> "triceps pushdown"
      [] name = "Barbell Row" -> "barbell row"
      [] name = "Lat Pulldown" -> "lat pulldown"
      [] name = "Seated Cable Row" -> "seated cable row"
      [] name = "Face Pull" -> "face pull"
      [] name = "Dumbbell Curl" -> "dumbbell curl"
      [] name = "Back Squat" -> "back squat"
      [] name = "Romanian Deadlift" -> "romanian deadlift"
      [] name = "Leg Press" -> "leg press"
      [] name = "Leg Curl" -> "leg curl"
      [] name = "Calf Raise" -> "calf raise"
      [] OTHER -> name

\* the record createExercise builds
createExercise(id, name, unitDefault) ==
    [id |-> id, name |-> trim(name), unitDefault |-> unitDefault]

\* the record createRoutine builds
createRoutine(id, name, exerciseIds) ==
    [id |-> id, name |-> trim(name), exerciseIds |-> exerciseIds]

\* lower-cased names that more than one exercise of the table has
DuplicatedKeys(table) ==
    {key \in {toLowerCase(e.name) : e \in table} :
        Cardinality({e \in table : toLowerCase(e.name) = key}) > 1}

\* The ways new Map(existingExercises.map(...)) can come out: of several
\* exercises with one key the last in toArray order stays, which is any of
\* them.  A picks names the one that stays for each duplicated key.
ExercisePicks(table) ==
    {picks \in [DuplicatedKeys(table) -> table] :
        \A key \in DuplicatedKeys(table) : toLowerCase(picks[key].name) = key}

exerciseByNameOf(table, picks) ==
    {[key |-> key,
      exercise |-> IF key \in DOMAIN picks THEN picks[key]
                   ELSE CHOOSE e \in table : toLowerCase(e.name) = key] :
        key \in {toLowerCase(e.name) : e \in table}}

\* mutant: the template name is looked up as written, not lower-cased
routineByNameHasExact(routineKeys, name) == name \in routineKeys

\* routineByName.has(template.name.toLowerCase())
routineByNameHas(routineKeys, name) == toLowerCase(name) \in routineKeys

\* The inner loop of ensureCoreRoutines over one template's exercise names,
\* from the i-th on: look the name up, create the exercise when it is
\* missing, collect the id.
RECURSIVE resolveExercises(_, _, _, _)
resolveExercises(exerciseNames, i, unitDefault, st) ==
    IF i > Len(exerciseNames)
    THEN st
    ELSE LET key == toLowerCase(exerciseNames[i])
             found == {m \in st.exerciseByName : m.key = key}
         IN  IF found # {}
             THEN resolveExercises(exerciseNames, i + 1, unitDefault,
                      [st EXCEPT !.exerciseIds =
                           Append(@, (CHOOSE m \in found : TRUE).exercise.id)])
             ELSE LET exercise == createExercise(st.nextId.exercises,
                                                 exerciseNames[i], unitDefault)
                  IN  resolveExercises(exerciseNames, i + 1, unitDefault,
                          [st EXCEPT
                              !.exerciseByName =
                                  @ \cup {[key |-> key, exercise |-> exercise]},
                              !.exercises = @ \cup {exercise},
                              !.nextId.exercises = @ + 1,
                              !.exerciseIds = Append(@, exercise.id)])

\* The outer loop, from the t-th template on.
RECURSIVE seedTemplates(_, _, _)
seedTemplates(t, unitDefault, st) ==
    IF t > Len(coreRoutineTemplates)
    THEN st
    ELSE LET template == coreRoutineTemplates[t]
             resolved == resolveExercises(template.exerciseNames, 1, unitDefault,
                                          [st EXCEPT !.exerciseIds = << >>])
         IN  IF routineByNameHas(resolved.routineKeys, template.name)
             THEN seedTemplates(t + 1, unitDefault, resolved)
             ELSE seedTemplates(t + 1, unitDefault,
                      [resolved EXCEPT
                          !.routines =
                              @ \cup {createRoutine(resolved.nextId.routines,
                                                    template.name,
                                                    resolved.exerciseIds)},
                          !.routineKeys = @ \cup {toLowerCase(template.name)},
                          !.nextId.routines = @ + 1])

\* the tables and the id count after ensureCoreRoutines(unitDefault)
ensureCoreRoutines(unitDefault, picks) ==
    seedTemplates(1, unitDefault,
        [exerciseByName |-> exerciseByNameOf(exercises, picks),
         routineKeys |-> {toLowerCase(r.name) : r \in routines},
         exercises |-> exercises,
         routines |-> routines,
         nextId |-> nextId,
         exerciseIds |-> << >>])

\* what every writing call on these two tables leaves behind
RoutineCall(name) ==
    /\ calls < MaxDbCalls
    /\ calls' = calls + 1
    /\ dbOp' = name
    /\ dbOpBefore' = dbOp
    /\ dbBefore' = [exercises |-> exercises, routines |-> routines]
    /\ UNCHANGED <<coreVars, ioVars, dbSessions, setEntries, now, listing>>

CreateExercise ==
    /\ \E name \in UserExerciseNames, unitDefault \in Units :
           exercises' = exercises \cup
               {createExercise(nextId.exercises, name, unitDefault)}
    /\ nextId' = [nextId EXCEPT !.exercises = @ + 1]
    /\ UNCHANGED routines
    /\ RoutineCall("createExercise")

CreateRoutine ==
    /\ \E name \in UserRoutineNames :
           routines' = routines \cup {createRoutine(nextId.routines, name, << >>)}
    /\ nextId' = [nextId EXCEPT !.routines = @ + 1]
    /\ UNCHANGED exercises
    /\ RoutineCall("createRoutine")

DeleteRoutine ==
    /\ \E routine \in routines : routines' = routines \ {routine}
    /\ UNCHANGED <<exercises, nextId>>
    /\ RoutineCall("deleteRoutine")

\* One whole call, from the two reads to the last write: the calls of this
\* specification follow one another.
EnsureCoreRoutines ==
    /\ \E unitDefault \in Units, picks \in ExercisePicks(exercises) :
           LET after == ensureCoreRoutines(unitDefault, picks)
           IN  /\ exercises' = after.exercises
               /\ routines' = after.routines
               /\ nextId' = after.nextId
    /\ RoutineCall("ensureCoreRoutines")

NextRoutines ==
    \/ CreateExercise
    \/ CreateRoutine
    \/ DeleteRoutine
    \/ EnsureCoreRoutines

SpecRoutines == Init /\ [][NextRoutines]_vars

(***************************************************************************)
(* The session and set-entry tables (db.ts).  The exerciseId of a call is  *)
(* whatever the caller passes: the table exercises is not consulted.       *)
(***************************************************************************)
\* the sessions of a behaviour are the first, the second, ... started; the
\* set entries of a behaviour are at most MaxSets
SessionNumbers == {1, 2}

\* new Date().toISOString() at the instants of the model, in time order;
\* the wall clock now is a position in this list
Timestamps == <<"2026-02-16T01:00:00.000Z", "2026-02-16T01:00:00.001Z">>

toISOString(instant) == Timestamps[instant]

\* the position in time of a timestamp; '' comes before every timestamp
InstantOf(text) ==
    IF text = "" THEN 0
    ELSE CHOOSE instant \in 1..Len(Timestamps) : Timestamps[instant] = text

\* a.localeCompare(b) on timestamps of one fixed-width format
localeCompare(a, b) ==
    IF InstantOf(a) < InstantOf(b) THEN -1
    ELSE IF InstantOf(a) > InstantOf(b) THEN 1 ELSE 0

SessionExerciseIds == {"bench", "squat"}

\* the input of addSetEntry; isWarmup and completed are left out
AddSetEntryInputs == {[weight |-> 30, reps |-> 1]}

\* the ids of the set entries the prefill specification stores
LoggedSetNumbers == {1, 2, 3}

\* inputs of addSetEntry that tell the sets of a session apart: two work
\* sets and a warm-up
LoggedSetInputs == {[weight |-> 30, reps |-> 1],
                    [weight |-> 31, reps |-> 2, isWarmup |-> FALSE],
                    [weight |-> 20, reps |-> 1, isWarmup |-> TRUE]}

\* the patch of updateSetEntry
SetEntryPatches == {[reps |-> 2]}

DefaultLimit == 10
ListLimits == {1, DefaultLimit}

\* the orders in which the records of a set can stand in an array
Orderings(S) ==
    {seq \in [1..Cardinality(S) -> S] :
        \A i, j \in 1..Cardinality(S) : i # j => seq[i] # seq[j]}

\* entries.sort((a, b) => a.index - b.index)
sortByIndex(entries) ==
    CHOOSE seq \in Orderings(entries) :
        \A i \in 1..(Len(seq) - 1) : seq[i].index <= seq[i + 1].index

\* listSessionExerciseEntries
listSessionExerciseEntries(sessionId, exerciseId) ==
    sortByIndex({e \in setEntries :
                    e.sessionId = sessionId /\ e.exerciseId = exerciseId})

endedAtOrEmpty(session) ==
    IF session.endedAt = Undefined THEN "" ELSE session.endedAt

\* mutant: the comparator is a.endedAt.localeCompare(b.endedAt), oldest first
sortedByEndedAtAscending(found) ==
    {seq \in Orderings(found) :
        \A i \in 1..(Len(seq) - 1) :
            localeCompare(endedAtOrEmpty(seq[i]), endedAtOrEmpty(seq[i + 1])) <= 0}

\* The outcomes of sort((a, b) => (b.endedAt ?? '').localeCompare(a.endedAt
\* ?? '')): the sort keeps sessions of one timestamp in the order bulkGet
\* returned them, which follows the random ids, so any order of them occurs.
sortedByEndedAtDescending(found) ==
    {seq \in Orderings(found) :
        \A i \in 1..(Len(seq) - 1) :
            localeCompare(endedAtOrEmpty(seq[i + 1]), endedAtOrEmpty(seq[i])) <= 0}

\* bulkGet of the sessions the entries name, filtered by Boolean(endedAt)
completedSessionsOf(entries) ==
    {s \in dbSessions :
        /\ \E e \in entries : e.sessionId = s.id
        /\ Truthy(s.endedAt)}

\* what listExerciseHistory(exerciseId, limit) can return
listExerciseHistory(exerciseId, limit) ==
    LET entries == {e \in setEntries : e.exerciseId = exerciseId}
    IN  IF entries = {}
        THEN {<< >>}
        ELSE {[k \in 1..Min2(limit, Len(order)) |->
                  [session |-> order[k],
                   sets |-> sortByIndex({e \in entries :
                                            e.sessionId = order[k].id})]] :
                 order \in sortedByEndedAtDescending(completedSessionsOf(entries))}

\* what getLastCompletedSessionForExercise(exerciseId) can return
getLastCompletedSessionForExercise(exerciseId) ==
    LET entries == {e \in setEntries : e.exerciseId = exerciseId}
        completed == completedSessionsOf(entries)
    IN  IF entries = {} \/ completed = {}
        THEN {Null}
        ELSE {[kind |-> "found",
               session |-> order[1],
               sets |-> sortByIndex({e \in entries : e.sessionId = order[1].id})] :
                 order \in sortedByEndedAtDescending(completed)}

\* mutant: workSets[nextIndex] ?? workSets[0], the first set stands in for a
\* missing one
getSetInputPrefillFromLastSessionFirst(history, nextIndex) ==
    IF history = Null
    THEN Null
    ELSE LET workSets == SelectSeq(history.sets, IsWorkSet)
         IN  IF Len(workSets) = 0
             THEN Null
             ELSE LET sourceSet == IF nextIndex + 1 <= Len(workSets)
                                   THEN workSets[nextIndex + 1]
                                   ELSE workSets[1]
                  IN  [kind |-> "prefill",
                       weight |-> sourceSet.weight,
                       reps |-> sourceSet.reps]

\* getSetInputPrefillFromLastSession, given the last completed session
getSetInputPrefillFromLastSession(history, nextIndex) ==
    IF history = Null
    THEN Null
    ELSE LET workSets == SelectSeq(history.sets, IsWorkSet)
         IN  IF Len(workSets) = 0
             THEN Null
             ELSE LET sourceSet == IF nextIndex + 1 <= Len(workSets)
                                   THEN workSets[nextIndex + 1]
                                   ELSE workSets[Len(workSets)]
                  IN  [kind |-> "prefill",
                       weight |-> sourceSet.weight,
                       reps |-> sourceSet.reps]

\* what every writing call on these two tables leaves behind: a listing
\* held by a screen is of the tables as they were, and is dropped
SessionCall ==
    /\ listing' = NoResult
    /\ UNCHANGED <<coreVars, ioVars, exercises, routines, calls, dbOp, dbOpBefore,
                   dbBefore>>

\* time passes between two calls
Tick ==
    /\ now < Len(Timestamps)
    /\ now' = now + 1
    /\ UNCHANGED <<coreVars, ioVars, exercises, routines, dbSessions, setEntries, nextId,
                   calls, dbOp, dbOpBefore, dbBefore, listing>>

StartSession ==
    /\ nextId.sessions \in SessionNumbers
    /\ dbSessions' = dbSessions \cup
           {[id |-> nextId.sessions, startedAt |-> toISOString(now),
             endedAt |-> Undefined, routineId |-> Undefined]}
    /\ nextId' = [nextId EXCEPT !.sessions = @ + 1]
    /\ UNCHANGED <<setEntries, now>>
    /\ SessionCall

EndSession ==
    /\ \E session \in dbSessions :
           dbSessions' = (dbSessions \ {session}) \cup
               {[session EXCEPT !.endedAt = toISOString(now)]}
    /\ UNCHANGED <<setEntries, nextId, now>>
    /\ SessionCall

addSetEntryOneOf(inputs, ids) ==
    /\ nextId.setEntries \in ids
    /\ \E session \in dbSessions, exerciseId \in SessionExerciseIds,
          input \in inputs :
           setEntries' = setEntries \cup
               {[id |-> nextId.setEntries,
                 sessionId |-> session.id,
                 exerciseId |-> exerciseId,
                 index |-> Len(listSessionExerciseEntries(session.id, exerciseId)),
                 weight |-> input.weight,
                 reps |-> input.reps,
                 isWarmup |-> IF "isWarmup" \in DOMAIN input
                              THEN input.isWarmup ELSE FALSE,
                 completedAt |-> Undefined]}
    /\ nextId' = [nextId EXCEPT !.setEntries = @ + 1]
    /\ UNCHANGED <<dbSessions, now>>
    /\ SessionCall

AddSetEntry == addSetEntryOneOf(AddSetEntryInputs, 1..MaxSets)

AddLoggedSet == addSetEntryOneOf(LoggedSetInputs, LoggedSetNumbers)

addSetWithPrefillWithin(ids) ==
    /\ nextId.setEntries \in ids
    /\ \E session \in dbSessions, exerciseId \in SessionExerciseIds :
          \E history \in getLastCompletedSessionForExercise(exerciseId) :
           LET nextIndex == Len(listSessionExerciseEntries(session.id, exerciseId))
               prefill == getSetInputPrefillFromLastSession(history, nextIndex)
               entry == [id |-> nextId.setEntries,
                         sessionId |-> session.id,
                         exerciseId |-> exerciseId,
                         index |-> nextIndex,
                         weight |-> IF prefill = Null THEN 0 ELSE prefill.weight,
                         reps |-> IF prefill = Null THEN 0 ELSE prefill.reps,
                         isWarmup |-> FALSE,
                         completedAt |-> Undefined]
           IN  /\ setEntries' = setEntries \cup {entry}
               /\ listing' = [kind |-> "prefilled", entry |-> entry]
    /\ nextId' = [nextId EXCEPT !.setEntries = @ + 1]
    /\ UNCHANGED <<dbSessions, now>>
    /\ UNCHANGED <<coreVars, ioVars, exercises, routines, calls, dbOp, dbOpBefore,
                   dbBefore>>

AddSetWithPrefill == addSetWithPrefillWithin(1..MaxSets)

AddPrefilledSet == addSetWithPrefillWithin(LoggedSetNumbers)

UpdateSetEntry ==
    /\ \E entry \in setEntries, patch \in SetEntryPatches :
           setEntries' = (setEntries \ {entry}) \cup
               {[entry EXCEPT !.reps = patch.reps]}
    /\ UNCHANGED <<dbSessions, nextId, now>>
    /\ SessionCall

ListExerciseHistory ==
    /\ \E exerciseId \in SessionExerciseIds, limit \in ListLimits :
          \E items \in listExerciseHistory(exerciseId, limit) :
           listing' = [kind |-> "history", exerciseId |-> exerciseId,
                       limit |-> limit, items |-> items]
    /\ UNCHANGED <<coreVars, ioVars, exercises, routines, dbSessions, setEntries, nextId,
                   now, calls, dbOp, dbOpBefore, dbBefore>>

NextSessions ==
    \/ Tick
    \/ StartSession
    \/ EndSession
    \/ AddSetEntry
    \/ AddSetWithPrefill
    \/ UpdateSetEntry
    \/ ListExerciseHistory

SpecSessions == Init /\ [][NextSessions]_vars

\* Sessions logged with sets that differ, and sets prefilled from them.
NextPrefill ==
    \/ Tick
    \/ StartSession
    \/ EndSession
    \/ AddLoggedSet
    \/ AddPrefilledSet

SpecPrefill == Init /\ [][NextPrefill]_vars

(***************************************************************************)
(* Vocabulary of the claims, stated on positions of the input list rather  *)
(* than with the filter/slice pipeline of the code.                        *)
(***************************************************************************)
ReturnedFrom(name) == pc = "returned" /\ op = name

\* positions of the completed non-warm-up sets of the input
CompletedWorkPositions ==
    {i \in 1..Len(sets) : ~sets[i].isWarmup /\ sets[i].completedAt # Undefined}

\* positions of the non-warm-up sets of the input
WorkPositions == {i \in 1..Len(sets) : ~sets[i].isWarmup}

\* the k-th smallest element of a set of positions
NthOf(P, k) == CHOOSE i \in P : Cardinality({j \in P : j <= i}) = k

\* positions of the considered sets: the first workSetsTarget completed work sets
ConsideredPositions ==
    {i \in CompletedWorkPositions :
        Cardinality({j \in CompletedWorkPositions : j <= i}) <= settings.workSetsTarget}

ConsideredCount == Cardinality(ConsideredPositions)

\* the k-th considered set
Considered(k) == sets[NthOf(ConsideredPositions, k)]

ConsideredReps == [k \in 1..ConsideredCount |-> Considered(k).reps]

AllSameWeightAtCap ==
    \A k \in 1..ConsideredCount :
        /\ Considered(k).weight = Considered(1).weight
        /\ Considered(k).reps >= settings.repMax

LowestConsideredReps ==
    CHOOSE m \in {Considered(k).reps : k \in 1..ConsideredCount} :
        \A k \in 1..ConsideredCount : m <= Considered(k).reps

(***************************************************************************)
(* C1: with exactly workSetsTarget considered sets, all at one weight W    *)
(* and all with reps >= repMax, the suggestion is increase_weight at       *)
(* W + weightIncrement with one repMin entry per considered set.           *)
(***************************************************************************)
C1_IncreaseWeightWhenAllAtCap ==
    (/\ ReturnedFrom("buildProgressionSuggestion")
     /\ ConsideredCount = settings.workSetsTarget
     /\ AllSameWeightAtCap)
    => /\ result.kind = "increase_weight"
       /\ result.suggestedWeight = Considered(1).weight + settings.weightIncrement
       /\ result.nextReps = [k \in 1..ConsideredCount |-> settings.repMin]

\* two sets at one weight and at the cap of a rep range whose floor is
\* below the cap
C1_Witness ==
    /\ ReturnedFrom("buildProgressionSuggestion")
    /\ settings.workSetsTarget = 2
    /\ settings.repMin < settings.repMax
    /\ ConsideredCount = 2
    /\ AllSameWeightAtCap
    /\ result.kind = "increase_weight"
    /\ result.nextReps = <<settings.repMin, settings.repMin>>

(***************************************************************************)
(* C2: with exactly workSetsTarget considered sets that are not all at the *)
(* first set's weight and at the cap, the suggestion is add_reps at the    *)
(* first considered set's weight, and nextReps is the considered reps with *)
(* every entry equal to the group minimum replaced by                      *)
(* min(reps + 1, repMax).                                                  *)
(***************************************************************************)
C2_AddRepsBumpsEveryLowestSet ==
    (/\ ReturnedFrom("buildProgressionSuggestion")
     /\ ConsideredCount = settings.workSetsTarget
     /\ ~AllSameWeightAtCap)
    => /\ result.kind = "add_reps"
       /\ result.suggestedWeight = Considered(1).weight
       /\ result.nextReps =
              [k \in 1..ConsideredCount |->
                  IF Considered(k).reps = LowestConsideredReps
                  THEN Min2(Considered(k).reps + 1, settings.repMax)
                  ELSE Considered(k).reps]

(***************************************************************************)
(* C3: strict double progression.  A suggestion is increase_weight (its    *)
(* suggestedWeight is above the first considered set's weight) only if     *)
(* there are exactly workSetsTarget considered sets, all at one weight and *)
(* all with reps >= repMax; every other suggestion keeps the first         *)
(* considered set's weight.                                                *)
(***************************************************************************)
C3_LoadIncreasesOnlyAtCap ==
    (ReturnedFrom("buildProgressionSuggestion") /\ result # Null)
    => /\ (result.kind = "increase_weight"
             <=> result.suggestedWeight > Considered(1).weight)
       /\ result.kind = "increase_weight"
             => (ConsideredCount = settings.workSetsTarget /\ AllSameWeightAtCap)
       /\ result.kind # "increase_weight"
             => result.suggestedWeight = Considered(1).weight

\* every considered set is at or above the cap, yet the weights differ and
\* the load is kept
C3_Witness ==
    /\ ReturnedFrom("buildProgressionSuggestion")
    /\ ConsideredCount = settings.workSetsTarget
    /\ \A k \in 1..ConsideredCount : Considered(k).reps >= settings.repMax
    /\ \E k \in 1..ConsideredCount : Considered(k).weight > Considered(1).weight
    /\ result.kind = "add_reps"
    /\ result.suggestedWeight = Considered(1).weight

(***************************************************************************)
(* C4 as stated: whenever the number of considered sets is below           *)
(* workSetsTarget the suggestion is collect_more_sets and nextReps echoes  *)
(* the considered reps.                                                    *)
(***************************************************************************)
C4_CollectMoreSetsBelowTarget ==
    (/\ ReturnedFrom("buildProgressionSuggestion")
     /\ ConsideredCount < settings.workSetsTarget)
    => /\ result.kind = "collect_more_sets"
       /\ result.nextReps = ConsideredReps

(***************************************************************************)
(* C4 amended: whenever the number of considered sets is at least one and  *)
(* below workSetsTarget the suggestion is collect_more_sets and nextReps   *)
(* echoes the considered reps; with no considered set there is no          *)
(* suggestion.                                                             *)
(***************************************************************************)
C4_CollectMoreSetsBetweenOneAndTarget ==
    (/\ ReturnedFrom("buildProgressionSuggestion")
     /\ ConsideredCount < settings.workSetsTarget)
    => IF ConsideredCount = 0
       THEN result = Null
       ELSE /\ result.kind = "collect_more_sets"
            /\ result.nextReps = ConsideredReps

\* one completed work set of two wanted, after an unfinished work set that
\* is skipped
C4_Witness ==
    /\ ReturnedFrom("buildProgressionSuggestion")
    /\ settings.workSetsTarget = 2
    /\ ConsideredCount = 1
    /\ Cardinality(WorkPositions) = 2
    /\ 1 \notin ConsideredPositions
    /\ result.kind = "collect_more_sets"
    /\ result.nextReps = <<Considered(1).reps>>

(***************************************************************************)
(* C5: the result is null exactly when the input has no set that is both   *)
(* non-warm-up and completed; otherwise it is a suggestion of one of the   *)
(* three kinds.                                                            *)
(***************************************************************************)
C5_NullIffNoCompletedWorkSet ==
    ReturnedFrom("buildProgressionSuggestion")
    => /\ result = Null <=> CompletedWorkPositions = {}
       /\ result # Null
             => result.kind \in {"collect_more_sets", "add_reps", "increase_weight"}

\* a non-empty input of warm-ups and unfinished work sets only
C5_Witness ==
    /\ ReturnedFrom("buildProgressionSuggestion")
    /\ \E i \in 1..Len(sets) : sets[i].isWarmup /\ sets[i].completedAt # Undefined
    /\ \E i \in 1..Len(sets) : ~sets[i].isWarmup /\ sets[i].completedAt = Undefined
    /\ result = Null

(***************************************************************************)
(* C6: a collect_more_sets suggestion carries the first considered set's   *)
(* weight and, position by position, the considered sets' reps.            *)
(***************************************************************************)
C6_CollectMoreSetsEchoes ==
    (ReturnedFrom("buildProgressionSuggestion") /\ result.kind = "collect_more_sets")
    => /\ result.suggestedWeight = Considered(1).weight
       /\ Len(result.nextReps) = ConsideredCount
       /\ \A k \in 1..ConsideredCount : result.nextReps[k] = Considered(k).reps

\* two considered sets of three wanted, with different weights and reps
C6_Witness ==
    /\ ReturnedFrom("buildProgressionSuggestion")
    /\ result.kind = "collect_more_sets"
    /\ ConsideredCount = 2
    /\ Considered(1).weight # Considered(2).weight
    /\ Considered(1).reps # Considered(2).reps
    /\ result.nextReps = <<Considered(1).reps, Considered(2).reps>>

(***************************************************************************)
(* C7: in an add_reps suggestion no entry of nextReps is below the reps of *)
(* its considered set, and an entry that differs from them is exactly one  *)
(* higher and not above repMax.                                            *)
(***************************************************************************)
C7_AddRepsNeverRegresses ==
    (ReturnedFrom("buildProgressionSuggestion") /\ result.kind = "add_reps")
    => \A k \in 1..ConsideredCount :
           /\ result.nextReps[k] >= Considered(k).reps
           /\ result.nextReps[k] # Considered(k).reps
                 => /\ result.nextReps[k] = Considered(k).reps + 1
                    /\ result.nextReps[k] <= settings.repMax

(***************************************************************************)
(* C8: isExerciseComplete is true exactly when the input has at least      *)
(* workSetsTarget non-warm-up sets and each of the first workSetsTarget of *)
(* them has a completedAt; the sets after those do not change the result.  *)
(***************************************************************************)
TargetWorkPositions ==
    {i \in WorkPositions :
        Cardinality({j \in WorkPositions : j <= i}) <= settings.workSetsTarget}

C8_CompleteIffFirstTargetWorkSetsDone ==
    ReturnedFrom("isExerciseComplete")
    => /\ result.value
             <=> /\ Cardinality(WorkPositions) >= settings.workSetsTarget
                 /\ \A i \in TargetWorkPositions : sets[i].completedAt # Undefined
       /\ Cardinality(WorkPositions) >= settings.workSetsTarget
             => \A tail \in SeqsUpTo(SetLike, 1) :
                    isExerciseComplete(
                        settings,
                        SubSeq(sets, 1, NthOf(WorkPositions, settings.workSetsTarget))
                            \o tail) = result.value

\* a completed work set after the target does not make up for an unfinished
\* one within it
C8_Witness ==
    /\ ReturnedFrom("isExerciseComplete")
    /\ Cardinality(WorkPositions) > settings.workSetsTarget
    /\ \E i \in TargetWorkPositions : sets[i].completedAt = Undefined
    /\ \E i \in WorkPositions \ TargetWorkPositions : sets[i].completedAt # Undefined
    /\ result.value = FALSE

(***************************************************************************)
(* C10: the considered sets are the first workSetsTarget completed         *)
(* non-warm-up sets in input order, and every suggestion has one nextReps  *)
(* entry per considered set, entry k being derived from the k-th           *)
(* considered set.                                                         *)
(***************************************************************************)
C10_NextRepsAlignedWithConsidered ==
    ReturnedFrom("buildProgressionSuggestion")
    => /\ completedWorkSetsOf(settings, sets)
             = [k \in 1..ConsideredCount |-> Considered(k)]
       /\ result # Null
             => /\ Len(result.nextReps) = ConsideredCount
                /\ result.kind = "collect_more_sets"
                      => result.nextReps = ConsideredReps
                /\ result.kind = "increase_weight"
                      => \A k \in 1..ConsideredCount :
                             result.nextReps[k] = settings.repMin
                /\ result.kind = "add_reps"
                      => \A k \in 1..ConsideredCount :
                             result.nextReps[k] \in
                                 {Considered(k).reps,
                                  Min2(Considered(k).reps + 1, settings.repMax)}
                /\ result.suggestedWeight \in
                       {Considered(1).weight,
                        Considered(1).weight + settings.weightIncrement}

\* the considered sets come in input order although neither their weights
\* nor their reps ascend
C10_Witness ==
    /\ ReturnedFrom("buildProgressionSuggestion")
    /\ settings.workSetsTarget = 2
    /\ ConsideredCount = 2
    /\ Considered(1).reps > Considered(2).reps
    /\ Considered(1).weight > Considered(2).weight
    /\ result.kind = "add_reps"
    /\ result.nextReps[1] = Considered(1).reps

(***************************************************************************)
(* C9: warm-up sets are invisible to the core.  Each function returns what *)
(* it returns for the same input with every warm-up set taken out, so two  *)
(* inputs that differ only by inserted, removed or altered warm-up sets    *)
(* get the same result.                                                    *)
(***************************************************************************)
WithoutWarmups(entries) ==
    LET kept == {i \in 1..Len(entries) : ~entries[i].isWarmup}
    IN  [k \in 1..Cardinality(kept) |-> entries[NthOf(kept, k)]]

SessionsWithoutWarmups ==
    [i \in 1..Len(sessions) |->
        [session |-> sessions[i].session, sets |-> WithoutWarmups(sessions[i].sets)]]

C9_WarmupsInvisible ==
    /\ ReturnedFrom("isExerciseComplete")
          => result.value = isExerciseComplete(settings, WithoutWarmups(sets))
    /\ ReturnedFrom("buildProgressionSuggestion")
          => result = buildProgressionSuggestion(copy, settings, WithoutWarmups(sets))
    /\ ReturnedFrom("summarizeExerciseHistory")
          => result = summarizeExerciseHistory(SessionsWithoutWarmups)

\* an ended session whose warm-up has a higher estimated one-rep-max than
\* its work set, which is nevertheless the best set
C9_Witness ==
    /\ ReturnedFrom("summarizeExerciseHistory")
    /\ Len(result.sessions) = 1
    /\ \E i \in 1..Len(sessions) :
           /\ sessions[i].session.endedAt # Undefined
           /\ Len(sessions[i].sets) = 2
           /\ sessions[i].sets[1].isWarmup
           /\ ~sessions[i].sets[2].isWarmup
           /\ calculateEstimatedOneRepMax(sessions[i].sets[1].weight,
                                          sessions[i].sets[1].reps)
                  > calculateEstimatedOneRepMax(sessions[i].sets[2].weight,
                                                sessions[i].sets[2].reps)
           /\ result.bestRecentSet = sessions[i].sets[2]

(***************************************************************************)
(* C11: when all workSetsTarget considered sets have reps exactly repMax   *)
(* but their weights are not all equal, the suggestion is add_reps at the  *)
(* first considered set's weight and nextReps repeats the current reps.    *)
(***************************************************************************)
C11_AtCapMixedWeightsNoChange ==
    (/\ ReturnedFrom("buildProgressionSuggestion")
     /\ ConsideredCount = settings.workSetsTarget
     /\ \A k \in 1..ConsideredCount : Considered(k).reps = settings.repMax
     /\ \E k \in 1..ConsideredCount : Considered(k).weight # Considered(1).weight)
    => /\ result.kind = "add_reps"
       /\ result.suggestedWeight = Considered(1).weight
       /\ result.nextReps = ConsideredReps
       /\ \A k \in 1..ConsideredCount : result.nextReps[k] = settings.repMax

\* the copy that nudges every lowest set, two sets at the cap of a proper
\* rep range, the second one heavier
C11_Witness ==
    /\ ReturnedFrom("buildProgressionSuggestion")
    /\ copy = "lowestRep"
    /\ settings.repMin < settings.repMax
    /\ ConsideredCount = 2
    /\ settings.workSetsTarget = 2
    /\ Considered(1).reps = settings.repMax
    /\ Considered(2).reps = settings.repMax
    /\ Considered(2).weight > Considered(1).weight
    /\ result.kind = "add_reps"
    /\ result.nextReps = <<settings.repMax, settings.repMax>>

(***************************************************************************)
(* Vocabulary of the history claims, stated on the input of the call.      *)
(***************************************************************************)
\* positions of the input sessions that have an end timestamp
EndedPositions ==
    {i \in 1..Len(sessions) : sessions[i].session.endedAt # Undefined}

RetainedCount == Cardinality(EndedPositions)

\* the k-th retained session of the input
Retained(k) == sessions[NthOf(EndedPositions, k)]

\* the input without its sessions in progress
EndedSessionsOnly == [k \in 1..RetainedCount |-> Retained(k)]

OneRepMaxOf(entry) == calculateEstimatedOneRepMax(entry.weight, entry.reps)

\* positions of the non-warm-up sets of a session
WorkPositionsOf(item) == {j \in 1..Len(item.sets) : ~item.sets[j].isWarmup}

\* the highest estimated one-rep-max among a session's work sets, 0 without
BestOneRepMaxOf(item) ==
    IF WorkPositionsOf(item) = {} THEN 0
    ELSE CHOOSE m \in {OneRepMaxOf(item.sets[j]) : j \in WorkPositionsOf(item)} :
             \A j \in WorkPositionsOf(item) : OneRepMaxOf(item.sets[j]) <= m

(***************************************************************************)
(* C12: summarizeExerciseHistory drops every session without an end        *)
(* timestamp: the per-session list is the ended sessions in input order,   *)
(* bestRecentSet is a set of an ended session, and the whole summary is    *)
(* the one of the input without its sessions in progress.                  *)
(***************************************************************************)
C12_UnendedSessionsDropped ==
    ReturnedFrom("summarizeExerciseHistory")
    => /\ Len(result.sessions) = RetainedCount
       /\ \A k \in 1..RetainedCount :
              /\ result.sessions[k].sessionId = Retained(k).session.id
              /\ result.sessions[k].endedAt = Retained(k).session.endedAt
       /\ result.bestRecentSet # Null
              => \E i \in EndedPositions :
                     \E j \in WorkPositionsOf(sessions[i]) :
                         sessions[i].sets[j] = result.bestRecentSet
       /\ result = summarizeExerciseHistory(EndedSessionsOnly)

\* a session in progress that holds the set with the highest estimate,
\* placed first, ahead of two ended sessions
C12_Witness ==
    /\ ReturnedFrom("summarizeExerciseHistory")
    /\ Len(sessions) = 3
    /\ EndedPositions = {2, 3}
    /\ WorkPositionsOf(sessions[1]) # {}
    /\ WorkPositionsOf(sessions[2]) # {}
    /\ BestOneRepMaxOf(sessions[1]) > BestOneRepMaxOf(sessions[2])
    /\ Len(result.sessions) = 2
    /\ result.bestRecentSet = sessions[2].sets[1]
    /\ result.trendDeltaOneRepMax = BestOneRepMaxOf(sessions[2])

(***************************************************************************)
(* C13: trendDeltaOneRepMax is the best estimated one-rep-max of the first *)
(* retained session minus that of the last retained session when at least  *)
(* two sessions are retained, and exactly 0 otherwise.                     *)
(***************************************************************************)
C13_TrendFirstMinusLastRetained ==
    ReturnedFrom("summarizeExerciseHistory")
    => result.trendDeltaOneRepMax =
           IF RetainedCount >= 2
           THEN BestOneRepMaxOf(Retained(1)) - BestOneRepMaxOf(Retained(RetainedCount))
           ELSE 0

\* three sessions, the middle one in progress, the first better than the
\* last: a positive trend between the two ended ones
C13_Witness ==
    /\ ReturnedFrom("summarizeExerciseHistory")
    /\ Len(sessions) = 3
    /\ EndedPositions = {1, 3}
    /\ BestOneRepMaxOf(sessions[1]) > BestOneRepMaxOf(sessions[3])
    /\ BestOneRepMaxOf(sessions[3]) > 0
    /\ result.trendDeltaOneRepMax
           = BestOneRepMaxOf(sessions[1]) - BestOneRepMaxOf(sessions[3])
    /\ result.trendDeltaOneRepMax > 0

\* the set at position j is the best set of a session: a work set that no
\* work set beats, and the earliest of those that equal it
IsBestSetOf(item, j) ==
    /\ j \in WorkPositionsOf(item)
    /\ \A l \in WorkPositionsOf(item) :
           /\ OneRepMaxOf(item.sets[l]) <= OneRepMaxOf(item.sets[j])
           /\ OneRepMaxOf(item.sets[l]) = OneRepMaxOf(item.sets[j]) => j <= l

(***************************************************************************)
(* C14: for each retained session, bestSet is the non-warm-up set with the *)
(* highest estimated one-rep-max, the earliest in input order when several *)
(* share it, and bestEstimatedOneRepMax is its estimate; a session without *)
(* a non-warm-up set has bestSet none and bestEstimatedOneRepMax 0 and is  *)
(* still retained.  The estimate compared is the double the code computes. *)
(***************************************************************************)
C14_BestSetPerSession ==
    ReturnedFrom("summarizeExerciseHistory")
    => /\ Len(result.sessions) = RetainedCount
       /\ \A k \in 1..RetainedCount :
              IF WorkPositionsOf(Retained(k)) = {}
              THEN /\ result.sessions[k].bestSet = Null
                   /\ result.sessions[k].bestEstimatedOneRepMax = 0
              ELSE \E j \in WorkPositionsOf(Retained(k)) :
                       /\ IsBestSetOf(Retained(k), j)
                       /\ result.sessions[k].bestSet = Retained(k).sets[j]
                       /\ result.sessions[k].bestEstimatedOneRepMax
                              = OneRepMaxOf(Retained(k).sets[j])

\* one ended session with two work sets of equal estimate, the first kept,
\* after an ended session without sets that is the trend's first endpoint
C14_Witness ==
    /\ ReturnedFrom("summarizeExerciseHistory")
    /\ EndedPositions = {1, 2}
    /\ sessions[1].sets = << >>
    /\ WorkPositionsOf(sessions[2]) = {1, 2}
    /\ OneRepMaxOf(sessions[2].sets[1]) = OneRepMaxOf(sessions[2].sets[2])
    /\ result.sessions[1].bestSet = Null
    /\ result.sessions[2].bestSet = sessions[2].sets[1]
    /\ result.trendDeltaOneRepMax = 0 - OneRepMaxOf(sessions[2].sets[1])

(***************************************************************************)
(* C15: bestRecentSet is the best of the retained sessions' best sets: the *)
(* highest estimated one-rep-max, from the earliest session in the given   *)
(* order on a tie; it is none exactly when no retained session has a work  *)
(* set.                                                                    *)
(***************************************************************************)
C15_BestRecentSetAcrossRetained ==
    ReturnedFrom("summarizeExerciseHistory")
    => LET withWork == {i \in EndedPositions : WorkPositionsOf(sessions[i]) # {}}
       IN  /\ result.bestRecentSet = Null <=> withWork = {}
           /\ withWork # {}
                  => \E i \in withWork :
                         /\ \E j \in WorkPositionsOf(sessions[i]) :
                                /\ IsBestSetOf(sessions[i], j)
                                /\ result.bestRecentSet = sessions[i].sets[j]
                         /\ \A h \in withWork :
                                /\ BestOneRepMaxOf(sessions[h]) <= BestOneRepMaxOf(sessions[i])
                                /\ BestOneRepMaxOf(sessions[h]) = BestOneRepMaxOf(sessions[i])
                                       => i <= h

\* a session in progress, then two ended sessions whose best sets have the
\* same estimate: the set of the earlier ended session is reported
C15_Witness ==
    /\ ReturnedFrom("summarizeExerciseHistory")
    /\ Len(sessions) = 3
    /\ EndedPositions = {2, 3}
    /\ WorkPositionsOf(sessions[2]) = {1}
    /\ WorkPositionsOf(sessions[3]) = {1}
    /\ BestOneRepMaxOf(sessions[2]) = BestOneRepMaxOf(sessions[3])
    /\ result.bestRecentSet = sessions[2].sets[1]
    /\ result.bestRecentSet # sessions[3].sets[1]

(***************************************************************************)
(* C16 as stated: calculateEstimatedOneRepMax(weight, reps) is exactly     *)
(* weight * (1 + reps / 30), that is 30 * result = weight * (30 + reps),   *)
(* for all weight >= 0 and reps >= 0.                                      *)
(***************************************************************************)
C16_OneRepMaxExact ==
    ReturnedFrom("calculateEstimatedOneRepMax")
    => result.value = ExactOneRepMax(operands[1], operands[2])

(***************************************************************************)
(* C16, amended: the result is weight * (1 + reps / 30) up to the rounding *)
(* of double arithmetic; it is exactly the weight when reps = 0 and        *)
(* exactly 0 when weight = 0; the summarizer reports a session's best      *)
(* estimate as this same computed value of its best set.                   *)
(***************************************************************************)
C16_OneRepMaxUpToRounding ==
    /\ ReturnedFrom("calculateEstimatedOneRepMax")
       => LET weight == operands[1]
              reps == operands[2]
              exact == 3 * weight * (30 + reps)
          IN  /\ result.value - exact \in {-1, 0, 1}
              /\ reps = 0 => result.value = 3 * 30 * weight
              /\ weight = 0 => result.value = 0
    /\ ReturnedFrom("summarizeExerciseHistory")
       => \A k \in 1..Len(result.sessions) :
              result.sessions[k].bestSet # Null
              => result.sessions[k].bestEstimatedOneRepMax
                     = calculateEstimatedOneRepMax(result.sessions[k].bestSet.weight,
                                                   result.sessions[k].bestSet.reps)

\* 30 * (1 + 1 / 30) is 31.000000000000004 in doubles, above the exact 31
C16_Witness ==
    /\ ReturnedFrom("calculateEstimatedOneRepMax")
    /\ operands = <<30, 1>>
    /\ result.value = ExactOneRepMax(30, 1) + 1
    /\ result.value > calculateEstimatedOneRepMax(31, 0)

C18_EmptyHistoryEmptySummary ==
    (ReturnedFrom("summarizeExerciseHistory") /\ snapshot.sessions = << >>)
    => /\ result.kind = "summary"
       /\ result.sessions = << >>
       /\ result.bestRecentSet = Null
       /\ result.trendDeltaOneRepMax = 0

C18_Witness ==
    /\ ReturnedFrom("summarizeExerciseHistory")
    /\ snapshot.sessions = << >>
    /\ sessions = << >>
    /\ result = [kind |-> "summary", sessions |-> << >>,
                 bestRecentSet |-> Null, trendDeltaOneRepMax |-> 0]

(***************************************************************************)
(* C19: after a completed ensureCoreRoutines, each of Push, Pull and Legs  *)
(* that no routine had before (names compared without case) is the name of *)
(* exactly one routine, a new one, with a non-empty exerciseIds list of    *)
(* ids of existing exercises; a name that a routine had before gets no     *)
(* further routine; and a call that directly follows another call creates  *)
(* no routine and no exercise.                                             *)
(***************************************************************************)
CoreRoutineNames == {"Push", "Pull", "Legs"}

RoutinesNamed(table, name) ==
    {r \in table : toLowerCase(r.name) = toLowerCase(name)}

C19_EnsureCoreRoutinesIdempotent ==
    dbOp = "ensureCoreRoutines"
    => /\ \A name \in CoreRoutineNames :
              IF RoutinesNamed(dbBefore.routines, name) = {}
              THEN /\ Cardinality(RoutinesNamed(routines, name)) = 1
                   /\ \A r \in RoutinesNamed(routines, name) :
                          /\ r.name = name
                          /\ r.exerciseIds # << >>
                          /\ \A k \in 1..Len(r.exerciseIds) :
                                 \E e \in exercises : e.id = r.exerciseIds[k]
              ELSE RoutinesNamed(routines, name) = RoutinesNamed(dbBefore.routines, name)
       /\ dbBefore.routines \subseteq routines
       /\ dbBefore.exercises \subseteq exercises
       /\ \A r \in routines \ dbBefore.routines : r.name \in CoreRoutineNames
       /\ dbOpBefore = "ensureCoreRoutines"
              => /\ routines = dbBefore.routines
                 /\ exercises = dbBefore.exercises

\* a second call in a row, on a store where a user's routine "push" stood
\* for Push before the first call: Pull and Legs were seeded once
C19_Witness ==
    /\ dbOp = "ensureCoreRoutines"
    /\ dbOpBefore = "ensureCoreRoutines"
    /\ \E r \in routines : r.name = "push"
    /\ ~ \E r \in routines : r.name = "Push"
    /\ Cardinality(routines) = 3
    /\ Cardinality(RoutinesNamed(routines, "Pull")) = 1
    /\ Cardinality(RoutinesNamed(routines, "Legs")) = 1
    /\ routines = dbBefore.routines

(***************************************************************************)
(* C20: after any sequence of startSession, addSetEntry, addSetWithPrefill,*)
(* updateSetEntry and endSession, listExerciseHistory(exerciseId, limit)   *)
(* returns only sessions that have an endedAt and hold a set of the        *)
(* exercise, each once, from the most recently ended to the least recently *)
(* ended, at most limit of them and no fewer than there are up to limit,   *)
(* none ended before a session left out, each with exactly its sets of the *)
(* exercise in ascending index order; a session in progress is not listed. *)
(***************************************************************************)
\* the sessions that have ended and hold a set of the exercise
EndedSessionsWith(exerciseId) ==
    {s \in dbSessions :
        /\ s.endedAt # Undefined
        /\ \E e \in setEntries : e.sessionId = s.id /\ e.exerciseId = exerciseId}

C20_HistoryListsEndedSessionsNewestFirst ==
    listing.kind = "history"
    => LET items == listing.items
           listed == {items[k].session : k \in 1..Len(items)}
           ended == EndedSessionsWith(listing.exerciseId)
       IN  /\ Len(items) <= listing.limit
           /\ listed \subseteq ended
           /\ Cardinality(listed) = Len(items)
           /\ Len(items) = Min2(listing.limit, Cardinality(ended))
           /\ \A i, j \in 1..Len(items) :
                  i < j => InstantOf(items[i].session.endedAt)
                               >= InstantOf(items[j].session.endedAt)
           /\ \A s \in ended \ listed : \A k \in 1..Len(items) :
                  InstantOf(items[k].session.endedAt) >= InstantOf(s.endedAt)
           /\ \A k \in 1..Len(items) :
                  LET mine == {e \in setEntries :
                                  /\ e.sessionId = items[k].session.id
                                  /\ e.exerciseId = listing.exerciseId}
                  IN  /\ Len(items[k].sets) = Cardinality(mine)
                      /\ {items[k].sets[n] : n \in 1..Len(items[k].sets)} = mine
                      /\ \A n \in 1..(Len(items[k].sets) - 1) :
                             items[k].sets[n].index < items[k].sets[n + 1].index

\* two ended sessions with a set of the exercise each, the one started
\* first ended last and listed first
C20_Witness ==
    /\ listing.kind = "history"
    /\ Len(listing.items) = 2
    /\ listing.items[1].session.id < listing.items[2].session.id
    /\ InstantOf(listing.items[1].session.endedAt)
           > InstantOf(listing.items[2].session.endedAt)
    /\ Len(listing.items[1].sets) = 1
    /\ Len(listing.items[2].sets) = 1

(***************************************************************************)
(* Training by the suggestion: every session is logged as the suggestion   *)
(* of the session before says, with all its sets completed.                *)
(***************************************************************************)
TrainingRepMaxes == {1, 2, 3}

TrainingSettings ==
    {s \in [repMin : RepBounds, repMax : TrainingRepMaxes,
            workSetsTarget : WorkSetsTargets, weightIncrement : WeightIncrements,
            unit : {"lb"}] : s.repMin <= s.repMax}

\* a completed work set
loggedSet(weight, reps) ==
    [weight |-> weight, reps |-> reps, isWarmup |-> FALSE,
     completedAt |-> "2026-02-16T00:00:00.000Z"]

\* the reps still missing to repMax over all sets
repsMissing(cfg, ss) ==
    LET RECURSIVE upTo(_)
        upTo(i) == IF i = 0 THEN 0
                   ELSE upTo(i - 1) +
                        (IF ss[i].reps < cfg.repMax THEN cfg.repMax - ss[i].reps
                         ELSE 0)
    IN  upTo(Len(ss))

\* the first session: workSetsTarget completed work sets at one weight
StartTraining ==
    /\ pc = "idle"
    /\ \E which \in Copies, cfg \in TrainingSettings, weight \in Weights :
         \E reps \in [1..cfg.workSetsTarget -> 0..cfg.repMax] :
           LET ss == [i \in 1..cfg.workSetsTarget |-> loggedSet(weight, reps[i])]
           IN  /\ copy' = which
               /\ settings' = cfg
               /\ sets' = ss
               /\ operands' = <<repsMissing(cfg, ss), 0, weight>>
    /\ pc' = "logging"
    /\ op' = "buildProgressionSuggestion"
    /\ result' = NoResult
    /\ again' = NoResult
    /\ UNCHANGED <<sessions, snapshot, dbVars, ioVars>>

\* the suggestion for the session logged last; an add_reps suggestion is
\* logged as the next session
LogAsSuggested ==
    /\ pc = "logging"
    /\ LET suggestion == buildProgressionSuggestion(copy, settings, sets)
       IN  /\ result' = suggestion
           /\ IF suggestion = Null \/ suggestion.kind = "collect_more_sets"
              THEN /\ pc' = "stalled"
                   /\ UNCHANGED <<sets, operands, again>>
              ELSE IF suggestion.kind = "increase_weight"
              THEN /\ pc' = "increased"
                   /\ UNCHANGED <<sets, operands, again>>
              ELSE /\ pc' = "logging"
                   /\ sets' = [i \in 1..Len(suggestion.nextReps) |->
                                  loggedSet(suggestion.suggestedWeight,
                                            suggestion.nextReps[i])]
                   /\ operands' = [operands EXCEPT ![2] = @ + 1]
                   /\ again' = [kind |-> "sets", sets |-> sets]
    /\ UNCHANGED <<op, copy, settings, sessions, snapshot, dbVars, ioVars>>

EndTraining ==
    /\ pc = "increased"
    /\ pc' = "idle"
    /\ op' = "none"
    /\ copy' = "none"
    /\ settings' = NoSettings
    /\ sets' = << >>
    /\ operands' = << >>
    /\ result' = NoResult
    /\ again' = NoResult
    /\ UNCHANGED <<sessions, snapshot, dbVars, ioVars>>

NextTraining ==
    \/ StartTraining
    \/ LogAsSuggested
    \/ EndTraining

\* the next session is always logged
SpecTraining == Init /\ [][NextTraining]_vars /\ WF_vars(LogAsSuggested)

(***************************************************************************)
(* The set-adding calls as the event loop runs them: each await ends a     *)
(* step, and steps of calls in flight interleave.  No call opens a         *)
(* transaction, so a read and the add that follows it are separate steps.  *)
(***************************************************************************)
SetAddingFunctions == {"addSetEntry", "addSetWithPrefill", "copyPreviousSet"}

\* a call may start while calls in flight and stored sets are fewer than MaxSets
CallSlots == 1..MaxSets

TaskFrame ==
    UNCHANGED <<coreVars, exercises, routines, dbSessions, now, calls, dbOp,
                dbOpBefore, dbBefore, listing, localStorage, lastWrite,
                ioResult, tx>>

\* the call is made: it runs up to its first await
CallSetAdding ==
    /\ Cardinality(tasks) + Cardinality(setEntries) < MaxSets
    /\ \E fn \in SetAddingFunctions, session \in dbSessions,
          exerciseId \in SessionExerciseIds, input \in AddSetEntryInputs :
           tasks' = tasks \cup
               {[id |-> CHOOSE slot \in CallSlots :
                            \A task \in tasks : task.id # slot,
                 fn |-> fn, sessionId |-> session.id, exerciseId |-> exerciseId,
                 input |-> input, step |-> "called", existingEntries |-> << >>,
                 prefill |-> Null]}
    /\ UNCHANGED <<setEntries, nextId>>
    /\ TaskFrame

\* listSessionExerciseEntries resolves
ReadExistingEntries ==
    /\ \E task \in tasks :
           /\ task.step = "called"
           /\ tasks' = (tasks \ {task}) \cup
                  {[task EXCEPT
                        !.step = "read",
                        !.existingEntries =
                            listSessionExerciseEntries(task.sessionId,
                                                       task.exerciseId)]}
    /\ UNCHANGED <<setEntries, nextId>>
    /\ TaskFrame

\* getSetInputPrefillFromLastSession resolves for addSetWithPrefill
ReadPrefill ==
    /\ \E task \in tasks :
           /\ task.fn = "addSetWithPrefill"
           /\ task.step = "read"
           /\ \E history \in getLastCompletedSessionForExercise(task.exerciseId) :
                  tasks' = (tasks \ {task}) \cup
                      {[task EXCEPT
                            !.step = "prefilled",
                            !.prefill = getSetInputPrefillFromLastSession(
                                            history, Len(task.existingEntries))]}
    /\ UNCHANGED <<setEntries, nextId>>
    /\ TaskFrame

\* the entry each function builds from what it read
entryOf(task, id) ==
    LET existingEntries == task.existingEntries
    IN  CASE task.fn = "addSetEntry" ->
                 [id |-> id, sessionId |-> task.sessionId,
                  exerciseId |-> task.exerciseId,
                  index |-> Len(existingEntries),
                  weight |-> task.input.weight, reps |-> task.input.reps,
                  isWarmup |-> IF "isWarmup" \in DOMAIN task.input
                               THEN task.input.isWarmup ELSE FALSE,
                  completedAt |-> Undefined]
          [] task.fn = "addSetWithPrefill" ->
                 [id |-> id, sessionId |-> task.sessionId,
                  exerciseId |-> task.exerciseId,
                  index |-> Len(existingEntries),
                  weight |-> IF task.prefill = Null THEN 0 ELSE task.prefill.weight,
                  reps |-> IF task.prefill = Null THEN 0 ELSE task.prefill.reps,
                  isWarmup |-> FALSE,
                  completedAt |-> Undefined]
          [] OTHER ->
                 [existingEntries[Len(existingEntries)] EXCEPT
                      !.id = id,
                      !.index = existingEntries[Len(existingEntries)].index + 1,
                      !.completedAt = Undefined]

\* db.setEntries.add resolves and the call returns
AddEntry ==
    /\ \E task \in tasks :
           /\ \/ task.fn = "addSetEntry" /\ task.step = "read"
              \/ task.fn = "addSetWithPrefill" /\ task.step = "prefilled"
              \/ /\ task.fn = "copyPreviousSet"
                 /\ task.step = "read"
                 /\ Len(task.existingEntries) > 0
           /\ setEntries' = setEntries \cup {entryOf(task, nextId.setEntries)}
           /\ tasks' = tasks \ {task}
    /\ nextId' = [nextId EXCEPT !.setEntries = @ + 1]
    /\ TaskFrame

\* copyPreviousSet found no previous set and returns null
ReturnNull ==
    /\ \E task \in tasks :
           /\ task.fn = "copyPreviousSet"
           /\ task.step = "read"
           /\ Len(task.existingEntries) = 0
           /\ tasks' = tasks \ {task}
    /\ UNCHANGED <<setEntries, nextId>>
    /\ TaskFrame

NextAsync ==
    \/ StartSession
    \/ CallSetAdding
    \/ ReadExistingEntries
    \/ ReadPrefill
    \/ AddEntry
    \/ ReturnNull

SpecAsync == Init /\ [][NextAsync]_vars

(***************************************************************************)
(* Values as JSON and JavaScript see them: each carries its type, so that  *)
(* typeof, Array.isArray, Number.isFinite and truthiness can be computed.  *)
(* Numbers are counted in tenths.                                          *)
(***************************************************************************)
JsUndefined == [t |-> "undefined"]
JsonNull == [t |-> "null"]
JsonString(s) == [t |-> "string", v |-> s]
JsonBoolean(b) == [t |-> "boolean", v |-> b]
JsonNumber(tenths) == [t |-> "number", finite |-> TRUE, tenths |-> tenths]
\* what JSON.parse makes of a literal beyond the double range, as 1e999
JsonInfinity == [t |-> "number", finite |-> FALSE, tenths |-> 0]
JsonArray(items) == [t |-> "array", items |-> items]
JsonObject(fields) == [t |-> "object", fields |-> fields]

\* value.name for a value that is neither null nor undefined
get(value, name) ==
    IF value.t = "object" /\ name \in DOMAIN value.fields
    THEN value.fields[name]
    ELSE JsUndefined

\* !value
falsy(value) ==
    \/ value.t \in {"undefined", "null"}
    \/ value.t = "string" /\ value.v = ""
    \/ value.t = "boolean" /\ ~value.v
    \/ value.t = "number" /\ value.finite /\ value.tenths = 0

\* typeof value === 'object'
typeofObject(value) == value.t \in {"object", "array", "null"}

isNonEmptyString(value) == value.t = "string" /\ value.v # ""

(***************************************************************************)
(* importFullExportData: one read-write transaction over the four tables.  *)
(* The tables hold what is committed; the transaction works on its own     *)
(* copy, which replaces the tables on commit and is dropped on abort.      *)
(***************************************************************************)
TableNames == {"exercises", "routines", "sessions", "setEntries"}

\* the order of the bulkAdd calls
AddOrder == <<"exercises", "routines", "sessions", "setEntries">>

tablesNow ==
    [exercises |-> exercises, routines |-> routines, sessions |-> dbSessions,
     setEntries |-> setEntries]

ImportedExercise(id, name) ==
    JsonObject([id |-> JsonString(id), name |-> JsonString(name),
                unitDefault |-> JsonString("lb"),
                progressionSettings |-> JsonObject([repMin |-> JsonNumber(80)])])

ImportedRoutine(id, name) ==
    JsonObject([id |-> JsonString(id), name |-> JsonString(name),
                exerciseIds |-> JsonArray(<<JsonString("e1")>>)])

ImportedSession(id) ==
    JsonObject([id |-> JsonString(id),
                startedAt |-> JsonString("2026-02-16T01:00:00.000Z")])

ImportedSetEntry(id, index, reps) ==
    JsonObject([id |-> JsonString(id), sessionId |-> JsonString("s1"),
                exerciseId |-> JsonString("e1"), index |-> JsonNumber(10 * index),
                weight |-> JsonNumber(1025), reps |-> JsonNumber(10 * reps),
                isWarmup |-> JsonBoolean(FALSE)])

\* an export with every table filled
FullData ==
    [exercises |-> <<ImportedExercise("e1", "Bench")>>,
     routines |-> <<ImportedRoutine("r1", "Push")>>,
     sessions |-> <<ImportedSession("s1")>>,
     setEntries |-> <<ImportedSetEntry("t1", 0, 8), ImportedSetEntry("t2", 1, 7)>>]

\* an export with nothing but one exercise
ExerciseOnlyData ==
    [exercises |-> <<ImportedExercise("e2", "Squat")>>, routines |-> << >>,
     sessions |-> << >>, setEntries |-> << >>]

\* an export whose last table has one id twice: the last bulkAdd fails
RepeatedSetEntryData ==
    [FullData EXCEPT !.exercises = <<ImportedExercise("e3", "Row")>>,
                     !.setEntries = <<ImportedSetEntry("t1", 0, 8),
                                      ImportedSetEntry("t1", 1, 7)>>]

\* an export whose first table has one id twice: the first bulkAdd fails
RepeatedExerciseData ==
    [FullData EXCEPT !.exercises = <<ImportedExercise("e1", "Bench"),
                                     ImportedExercise("e1", "Press")>>]

ImportDatas == {FullData, ExerciseOnlyData, RepeatedSetEntryData,
                RepeatedExerciseData}

Range(items) == {items[i] : i \in DOMAIN items}

\* bulkAdd rejects a list that gives one primary key twice, or a key the
\* table holds
bulkAddRejects(table, items) ==
    \/ \E i, j \in DOMAIN items :
           i # j /\ get(items[i], "id") = get(items[j], "id")
    \/ \E i \in DOMAIN items, row \in table :
           get(items[i], "id") = get(row, "id")

\* what the tables hold once the transaction has aborted
tablesAfterAbortKeepingWrites(before, working) == working

tablesAfterAbort(before, working) == before

\* the transaction function has been entered; nothing is cleared yet
beginImport(via, text, data, preferences) ==
    [step |-> "clearing", via |-> via, text |-> text, data |-> data,
     preferences |-> preferences, before |-> tablesNow, working |-> tablesNow,
     storage |-> localStorage, cleared |-> {}, added |-> 0]

abortImport ==
    LET after == tablesAfterAbort(tx.before, tx.working)
    IN  /\ exercises' = after.exercises
        /\ routines' = after.routines
        /\ dbSessions' = after.sessions
        /\ setEntries' = after.setEntries
        /\ tx' = [tx EXCEPT !.step = "aborted"]

ImportFrame ==
    UNCHANGED <<coreVars, nextId, now, calls, dbOp, dbOpBefore, dbBefore,
                listing, lastWrite, tasks>>

ImportFullExportData ==
    /\ tx.step = "none"
    /\ \E data \in ImportDatas :
           tx' = beginImport("importFullExportData", Null, data, JsUndefined)
    /\ UNCHANGED <<exercises, routines, dbSessions, setEntries, localStorage,
                   ioResult>>
    /\ ImportFrame

\* one of the four clear() requests of Promise.all is served
ClearTable ==
    /\ tx.step = "clearing"
    /\ \E name \in TableNames \ tx.cleared :
           tx' = [tx EXCEPT !.working[name] = {},
                            !.cleared = @ \cup {name},
                            !.step = IF tx.cleared \cup {name} = TableNames
                                     THEN "adding" ELSE "clearing"]
    /\ UNCHANGED <<exercises, routines, dbSessions, setEntries, localStorage,
                   ioResult>>
    /\ ImportFrame

\* the next bulkAdd, skipped for an empty list; a rejected one aborts
BulkAdd ==
    /\ tx.step = "adding"
    /\ tx.added < Len(AddOrder)
    /\ LET name == AddOrder[tx.added + 1]
           items == tx.data[name]
       IN  IF Len(items) > 0 /\ bulkAddRejects(tx.working[name], items)
           THEN abortImport
           ELSE /\ tx' = [tx EXCEPT !.working[name] = @ \cup Range(items),
                                    !.added = @ + 1]
                /\ UNCHANGED <<exercises, routines, dbSessions, setEntries>>
    /\ UNCHANGED <<localStorage, ioResult>>
    /\ ImportFrame

\* a request of the transaction fails in the store
RequestFails ==
    /\ tx.step \in {"clearing", "adding"}
    /\ abortImport
    /\ UNCHANGED <<localStorage, ioResult>>
    /\ ImportFrame

\* the transaction function has returned
Commit ==
    /\ tx.step = "adding"
    /\ tx.added = Len(AddOrder)
    /\ exercises' = tx.working.exercises
    /\ routines' = tx.working.routines
    /\ dbSessions' = tx.working.sessions
    /\ setEntries' = tx.working.setEntries
    /\ tx' = [tx EXCEPT !.step = "committed"]
    /\ UNCHANGED <<localStorage, ioResult>>
    /\ ImportFrame

\* the caller is done with the outcome
ForgetImport ==
    /\ tx.step \in {"committed", "aborted"}
    /\ tx.via = "importFullExportData"
    /\ tx' = NoTransaction
    /\ ioResult' = NoResult
    /\ UNCHANGED <<exercises, routines, dbSessions, setEntries, localStorage>>
    /\ ImportFrame

NextImport ==
    \/ ImportFullExportData
    \/ ClearTable
    \/ BulkAdd
    \/ RequestFails
    \/ Commit
    \/ ForgetImport

SpecImport == Init /\ [][NextImport]_vars

(***************************************************************************)
(* Local storage: preferences and the selected routine.  A stored text is  *)
(* either a document, named by the value JSON.parse makes of it, or plain  *)
(* characters that are no JSON.                                            *)
(***************************************************************************)
PREFERENCES_KEY == "workout-tracker.preferences.v1"
selectedRoutineIdKey == "workout-tracker.selected-routine-id.v1"

Chars(s) == [kind |-> "chars", chars |-> s]
JsonText(value) == [kind |-> "json", value |-> value]

getItem(key) == IF key \in DOMAIN localStorage THEN localStorage[key] ELSE Null

setItem(key, text) ==
    [k \in DOMAIN localStorage \cup {key} |->
        IF k = key THEN text ELSE localStorage[k]]

\* removeItem, mutated to leave the item
removeItemLeavingIt(key) == localStorage

removeItem(key) == [k \in DOMAIN localStorage \ {key} |-> localStorage[k]]

\* !raw for what getItem returned
noText(raw) == raw = Null \/ raw = Chars("")

\* numbers are counted in tenths: 5, 90 and the floor 0.1
defaultPreferences ==
    [defaultUnit |-> "lb", defaultWeightIncrement |-> 50,
     restTimerEnabled |-> TRUE, restSeconds |-> 900]

isUnit(value) == value.t = "string" /\ value.v \in {"lb", "kg"}

isFiniteNumber(value) == value.t = "number" /\ value.finite

mathMax(a, b) == IF a >= b THEN a ELSE b

\* Math.round, mutated to round halves down
mathRoundHalfDown(tenths) == 10 * ((tenths + 4) \div 10)

\* Math.round: to the nearest integer, halves towards plus infinity
mathRound(tenths) == 10 * ((tenths + 5) \div 10)

readPreferences ==
    LET raw == getItem(PREFERENCES_KEY)
    IN  IF noText(raw) THEN defaultPreferences
        ELSE IF raw.kind # "json" THEN defaultPreferences
        ELSE IF raw.value.t = "null" THEN defaultPreferences
        ELSE LET parsed == raw.value
                 unit == get(parsed, "defaultUnit")
                 increment == get(parsed, "defaultWeightIncrement")
                 enabled == get(parsed, "restTimerEnabled")
                 seconds == get(parsed, "restSeconds")
             IN  [defaultUnit |->
                      IF isUnit(unit) THEN unit.v
                      ELSE defaultPreferences.defaultUnit,
                  defaultWeightIncrement |->
                      IF isFiniteNumber(increment)
                      THEN mathMax(1, increment.tenths)
                      ELSE defaultPreferences.defaultWeightIncrement,
                  restTimerEnabled |->
                      IF enabled.t = "boolean" THEN enabled.v
                      ELSE defaultPreferences.restTimerEnabled,
                  restSeconds |->
                      IF isFiniteNumber(seconds)
                      THEN mathMax(0, mathRound(seconds.tenths))
                      ELSE defaultPreferences.restSeconds]

\* JSON.stringify of a preferences object
stringifyPreferences(preferences) ==
    JsonText(JsonObject(
        [name \in DOMAIN preferences |->
            CASE name = "defaultUnit" -> JsonString(preferences[name])
              [] name = "restTimerEnabled" -> JsonBoolean(preferences[name])
              [] OTHER -> JsonNumber(preferences[name])]))

readSelectedRoutineId ==
    LET value == getItem(selectedRoutineIdKey)
    IN  IF noText(value) THEN "" ELSE value.chars

\* what a preferences item may hold: no JSON, JSON that is no object, and
\* objects with each field missing, valid or invalid
StoredUnits == {JsUndefined, JsonString("kg"), JsonString("stone"), JsonNumber(10)}
StoredIncrements ==
    {JsUndefined, JsonNumber(25), JsonNumber(0), JsonNumber(-10), JsonInfinity,
     JsonString("5")}
StoredFlags == {JsUndefined, JsonBoolean(FALSE), JsonString("yes")}
StoredSeconds ==
    {JsUndefined, JsonNumber(1200), JsonNumber(455), JsonNumber(454),
     JsonNumber(-35), JsonNumber(-36), JsonInfinity, JsonString("90")}

FieldNames == {"defaultUnit", "defaultWeightIncrement", "restTimerEnabled",
               "restSeconds"}

\* the object with the fields that are not undefined
ObjectOf(fields) ==
    JsonObject([name \in {n \in FieldNames : fields[n] # JsUndefined} |->
                   fields[name]])

StoredTexts ==
    {Chars(""), Chars("{oops"), JsonText(JsonNull), JsonText(JsonNumber(70)),
     JsonText(JsonString("kg")), JsonText(JsonBoolean(TRUE)),
     JsonText(JsonArray(<< >>))}
    \cup {JsonText(ObjectOf([defaultUnit |-> u, defaultWeightIncrement |-> i,
                             restTimerEnabled |-> f, restSeconds |-> s])) :
             u \in StoredUnits, i \in StoredIncrements, f \in StoredFlags,
             s \in StoredSeconds}

WrittenPreferences ==
    {defaultPreferences,
     [defaultUnit |-> "kg", restTimerEnabled |-> FALSE, restSeconds |-> 600]}

RoutineIds == {"", "r1", "r2"}

StorageFrame == UNCHANGED <<coreVars, dbVars, tx, tasks>>

\* anything else on the page stores a preferences item
StoreItem ==
    /\ \E text \in StoredTexts : localStorage' = setItem(PREFERENCES_KEY, text)
    /\ ioResult' = [kind |-> "setItem"]
    /\ UNCHANGED lastWrite
    /\ StorageFrame

RemoveItem ==
    /\ PREFERENCES_KEY \in DOMAIN localStorage
    /\ localStorage' = removeItem(PREFERENCES_KEY)
    /\ ioResult' = [kind |-> "removeItem"]
    /\ UNCHANGED lastWrite
    /\ StorageFrame

ReadPreferences ==
    /\ ioResult' = [kind |-> "readPreferences", value |-> readPreferences]
    /\ UNCHANGED <<localStorage, lastWrite>>
    /\ StorageFrame

WritePreferences ==
    /\ \E preferences \in WrittenPreferences :
           localStorage' = setItem(PREFERENCES_KEY,
                                   stringifyPreferences(preferences))
    /\ ioResult' = [kind |-> "writePreferences"]
    /\ UNCHANGED lastWrite
    /\ StorageFrame

ReadSelectedRoutineId ==
    /\ ioResult' = [kind |-> "readSelectedRoutineId",
                    value |-> readSelectedRoutineId]
    /\ UNCHANGED <<localStorage, lastWrite>>
    /\ StorageFrame

WriteSelectedRoutineId ==
    /\ \E routineId \in RoutineIds :
           /\ localStorage' = IF routineId = ""
                              THEN removeItem(selectedRoutineIdKey)
                              ELSE setItem(selectedRoutineIdKey, Chars(routineId))
           /\ lastWrite' = routineId
    /\ ioResult' = [kind |-> "writeSelectedRoutineId"]
    /\ StorageFrame

NextStorage ==
    \/ StoreItem
    \/ RemoveItem
    \/ ReadPreferences
    \/ WritePreferences
    \/ ReadSelectedRoutineId
    \/ WriteSelectedRoutineId

SpecStorage == Init /\ [][NextStorage]_vars

(***************************************************************************)
(* lib/exportImport.ts: applyJsonImport parses and validates the text,     *)
(* then imports the data in a transaction, then writes the preferences.    *)
(***************************************************************************)
importFailed(detail) == [kind |-> "error", prefix |-> "Import failed", detail |-> detail]

assertObject(value) == ~falsy(value) /\ typeofObject(value)

assertArray(value) == value.t = "array"

validateExercise(value) ==
    /\ assertObject(value)
    /\ isNonEmptyString(get(value, "id"))
    /\ get(value, "name").t = "string"
    /\ trim(get(value, "name").v) # ""
    /\ get(value, "unitDefault") \in {JsonString("lb"), JsonString("kg")}
    /\ assertObject(get(value, "progressionSettings"))

validateRoutine(value) ==
    /\ assertObject(value)
    /\ isNonEmptyString(get(value, "id"))
    /\ get(value, "name").t = "string"
    /\ trim(get(value, "name").v) # ""
    /\ assertArray(get(value, "exerciseIds"))
    /\ \A i \in DOMAIN get(value, "exerciseIds").items :
           get(value, "exerciseIds").items[i].t = "string"

validateSession(value) ==
    /\ assertObject(value)
    /\ isNonEmptyString(get(value, "id"))
    /\ isNonEmptyString(get(value, "startedAt"))

\* Number.isInteger of a number counted in tenths
isInteger(value) == value.t = "number" /\ value.finite /\ value.tenths % 10 = 0

\* mutant: any finite number passes for the index
validateSetEntryAnyIndex(value) ==
    /\ assertObject(value)
    /\ isNonEmptyString(get(value, "id"))
    /\ isNonEmptyString(get(value, "sessionId"))
    /\ isNonEmptyString(get(value, "exerciseId"))
    /\ isFiniteNumber(get(value, "index"))
    /\ isFiniteNumber(get(value, "weight"))
    /\ isFiniteNumber(get(value, "reps"))
    /\ get(value, "isWarmup").t = "boolean"

validateSetEntry(value) ==
    /\ assertObject(value)
    /\ isNonEmptyString(get(value, "id"))
    /\ isNonEmptyString(get(value, "sessionId"))
    /\ isNonEmptyString(get(value, "exerciseId"))
    /\ isInteger(get(value, "index"))
    /\ isFiniteNumber(get(value, "weight"))
    /\ isFiniteNumber(get(value, "reps"))
    /\ get(value, "isWarmup").t = "boolean"

validatePreferences(value) ==
    IF falsy(value) \/ ~typeofObject(value)
    THEN defaultPreferences
    ELSE [defaultUnit |->
              IF get(value, "defaultUnit") \in {JsonString("kg"), JsonString("lb")}
              THEN get(value, "defaultUnit").v
              ELSE defaultPreferences.defaultUnit,
          restTimerEnabled |->
              IF get(value, "restTimerEnabled").t = "boolean"
              THEN get(value, "restTimerEnabled").v
              ELSE defaultPreferences.restTimerEnabled,
          restSeconds |->
              IF isFiniteNumber(get(value, "restSeconds"))
              THEN mathMax(0, mathRound(get(value, "restSeconds").tenths))
              ELSE defaultPreferences.restSeconds]

\* validatePayload: the error it throws, or the payload it returns
validatePayload(value) ==
    IF falsy(value) \/ ~typeofObject(value)
    THEN importFailed("expected an object at the top level.")
    ELSE IF get(value, "version") # JsonNumber(10)
    THEN importFailed("unsupported export version.")
    ELSE IF falsy(get(value, "data")) \/ ~typeofObject(get(value, "data"))
    THEN importFailed("missing data section.")
    ELSE LET data == get(value, "data")
         IN  IF \E name \in TableNames : ~assertArray(get(data, name))
             THEN importFailed("a collection must be an array.")
             ELSE IF \/ \E i \in DOMAIN get(data, "exercises").items :
                           ~validateExercise(get(data, "exercises").items[i])
                     \/ \E i \in DOMAIN get(data, "routines").items :
                           ~validateRoutine(get(data, "routines").items[i])
                     \/ \E i \in DOMAIN get(data, "sessions").items :
                           ~validateSession(get(data, "sessions").items[i])
                     \/ \E i \in DOMAIN get(data, "setEntries").items :
                           ~validateSetEntry(get(data, "setEntries").items[i])
             THEN importFailed("a record has an invalid field.")
             ELSE [kind |-> "payload",
                   preferences |-> validatePreferences(get(value, "preferences")),
                   data |-> [name \in TableNames |-> get(data, name).items]]

\* the export file of a data section, with or without preferences
ExportOf(version, data, preferences) ==
    JsonText(JsonObject(
        [name \in {"version", "data"} \cup
                  (IF preferences = JsUndefined THEN {} ELSE {"preferences"}) |->
            CASE name = "version" -> version
              [] name = "data" -> data
              [] OTHER -> preferences]))

DataSection(data) ==
    JsonObject([name \in TableNames |-> JsonArray(data[name])])

ExportedPreferences ==
    JsonObject([defaultUnit |-> JsonString("kg"),
                restTimerEnabled |-> JsonBoolean(FALSE),
                restSeconds |-> JsonNumber(455)])

\* files that pass validation; the last one is rejected by the last bulkAdd
ValidTexts ==
    {ExportOf(JsonNumber(10), DataSection(FullData), ExportedPreferences),
     ExportOf(JsonNumber(10), DataSection(ExerciseOnlyData), JsUndefined),
     ExportOf(JsonNumber(10), DataSection(RepeatedSetEntryData),
              ExportedPreferences)}

\* one set entry with a field replaced
SetEntryWith(name, value) ==
    JsonObject([ImportedSetEntry("t1", 0, 8).fields EXCEPT ![name] = value])

\* files that are no JSON or that validation has to reject
InvalidTexts ==
    {Chars("{oops"),
     JsonText(JsonNull),
     JsonText(JsonNumber(70)),
     JsonText(JsonArray(<< >>)),
     ExportOf(JsonNumber(20), DataSection(FullData), ExportedPreferences),
     ExportOf(JsonString("1"), DataSection(FullData), ExportedPreferences),
     JsonText(JsonObject([version |-> JsonNumber(10)])),
     ExportOf(JsonNumber(10), JsonString("data"), ExportedPreferences),
     ExportOf(JsonNumber(10),
              JsonObject([DataSection(FullData).fields EXCEPT
                              !.sessions = JsonObject([id |-> JsonString("s1")])]),
              ExportedPreferences),
     ExportOf(JsonNumber(10),
              DataSection([FullData EXCEPT
                  !.exercises = <<ImportedExercise("", "Bench")>>]),
              ExportedPreferences),
     ExportOf(JsonNumber(10),
              DataSection([FullData EXCEPT
                  !.routines = <<JsonObject([id |-> JsonString("r1"),
                                             name |-> JsonString("Push"),
                                             exerciseIds |->
                                                 JsonArray(<<JsonNumber(10)>>)])>>]),
              ExportedPreferences),
     ExportOf(JsonNumber(10),
              DataSection([FullData EXCEPT
                  !.sessions = <<JsonObject([id |-> JsonString("s1")])>>]),
              ExportedPreferences),
     ExportOf(JsonNumber(10),
              DataSection([FullData EXCEPT
                  !.setEntries = <<ImportedSetEntry("t1", 0, 8),
                                   SetEntryWith("index", JsonNumber(15))>>]),
              ExportedPreferences),
     ExportOf(JsonNumber(10),
              DataSection([FullData EXCEPT
                  !.setEntries = <<SetEntryWith("weight", JsonInfinity)>>]),
              ExportedPreferences),
     ExportOf(JsonNumber(10),
              DataSection([FullData EXCEPT
                  !.setEntries = <<SetEntryWith("isWarmup", JsonString("no"))>>]),
              ExportedPreferences)}

\* applyJsonImport up to its first await: parse, validate, enter the
\* transaction
ApplyJsonImport ==
    /\ tx.step = "none"
    /\ \E text \in ValidTexts \cup InvalidTexts :
           IF text.kind # "json"
           THEN /\ ioResult' = importFailed("file is not valid JSON.")
                /\ tx' = [step |-> "none", text |-> text, before |-> tablesNow,
                          storage |-> localStorage]
           ELSE IF validatePayload(text.value).kind = "error"
           THEN /\ ioResult' = validatePayload(text.value)
                /\ tx' = [step |-> "none", text |-> text, before |-> tablesNow,
                          storage |-> localStorage]
           ELSE /\ ioResult' = [kind |-> "pending"]
                /\ tx' = beginImport("applyJsonImport", text,
                                     validatePayload(text.value).data,
                                     validatePayload(text.value).preferences)
    /\ UNCHANGED <<exercises, routines, dbSessions, setEntries, localStorage>>
    /\ ImportFrame

\* the import has resolved: writePreferences, and applyJsonImport resolves
WriteImportedPreferences ==
    /\ tx.step = "committed"
    /\ tx.via = "applyJsonImport"
    /\ localStorage' = setItem(PREFERENCES_KEY,
                               stringifyPreferences(tx.preferences))
    /\ tx' = [tx EXCEPT !.step = "done"]
    /\ ioResult' = [kind |-> "resolved"]
    /\ UNCHANGED <<exercises, routines, dbSessions, setEntries>>
    /\ ImportFrame

\* the import has rejected: applyJsonImport rejects with the store's error
RejectJsonImport ==
    /\ tx.step = "aborted"
    /\ tx.via = "applyJsonImport"
    /\ tx' = [tx EXCEPT !.step = "rejected"]
    /\ ioResult' = [kind |-> "error", prefix |-> "store", detail |-> "aborted"]
    /\ UNCHANGED <<exercises, routines, dbSessions, setEntries, localStorage>>
    /\ ImportFrame

\* the caller is done with the outcome
ForgetJsonImport ==
    /\ tx.step \in {"done", "rejected"}
    /\ tx' = NoTransaction
    /\ ioResult' = NoResult
    /\ UNCHANGED <<exercises, routines, dbSessions, setEntries, localStorage>>
    /\ ImportFrame

NextJsonImport ==
    \/ ApplyJsonImport
    \/ ClearTable
    \/ BulkAdd
    \/ RequestFails
    \/ Commit
    \/ WriteImportedPreferences
    \/ RejectJsonImport
    \/ ForgetJsonImport

SpecJsonImport == Init /\ [][NextJsonImport]_vars

(***************************************************************************)
(* lib/historySheet.ts: the drag offset is a JavaScript number, finite or  *)
(* NaN, Infinity or -Infinity.                                             *)
(***************************************************************************)
HISTORY_SHEET_CLOSE_THRESHOLD == 96

Finite(n) == [kind |-> "finite", value |-> n]
NaN == [kind |-> "NaN", value |-> 0]
PlusInfinity == [kind |-> "Infinity", value |-> 0]
MinusInfinity == [kind |-> "-Infinity", value |-> 0]

\* Number.isFinite
numberIsFinite(x) == x.kind = "finite"

\* a > b on numbers: false whenever one side is NaN
greaterThan(a, b) ==
    /\ a.kind # "NaN"
    /\ b.kind # "NaN"
    /\ \/ a.kind = "Infinity" /\ b.kind # "Infinity"
       \/ a.kind = "finite" /\ b.kind = "-Infinity"
       \/ a.kind = "finite" /\ b.kind = "finite" /\ a.value > b.value

\* a >= b on numbers: false whenever one side is NaN
greaterOrEqual(a, b) ==
    /\ a.kind # "NaN"
    /\ b.kind # "NaN"
    /\ \/ a.kind = "Infinity"
       \/ b.kind = "-Infinity"
       \/ a.kind = "finite" /\ b.kind = "finite" /\ a.value >= b.value

\* the default of the parameter closeThreshold
closeThresholdOf(argument) ==
    IF argument = JsUndefined THEN Finite(HISTORY_SHEET_CLOSE_THRESHOLD)
    ELSE argument

shouldCloseHistorySheetAfterDrag(dragOffset, closeThreshold) ==
    IF ~numberIsFinite(dragOffset) THEN FALSE
    ELSE greaterOrEqual(dragOffset, closeThresholdOf(closeThreshold))

DragOffsets ==
    {Finite(n) : n \in -1..120} \cup {NaN, PlusInfinity, MinusInfinity}

CloseThresholds ==
    {JsUndefined, Finite(0), Finite(95), Finite(120), NaN, PlusInfinity,
     MinusInfinity}

\* the drag ends and the sheet asks whether to close
ShouldCloseHistorySheetAfterDrag ==
    /\ \E dragOffset \in DragOffsets, closeThreshold \in CloseThresholds :
           ioResult' = [kind |-> "shouldCloseHistorySheetAfterDrag",
                        dragOffset |-> dragOffset,
                        closeThreshold |-> closeThreshold,
                        value |-> shouldCloseHistorySheetAfterDrag(
                                      dragOffset, closeThreshold)]
    /\ UNCHANGED <<coreVars, dbVars, localStorage, lastWrite, tx, tasks>>

NextSheet == ShouldCloseHistorySheetAfterDrag

SpecSheet == Init /\ [][NextSheet]_vars

(***************************************************************************)
(* C21: the prefill for next index k is the weight and reps of the k-th    *)
(* non-warm-up set (0-based, in index order) of the most recently ended    *)
(* session that holds the exercise, or of its last non-warm-up set when it *)
(* has k or fewer; it is null, and addSetWithPrefill writes weight 0 and   *)
(* reps 0, when no ended session holds the exercise or that session has no *)
(* work set; a session that has not ended is never the source.             *)
(***************************************************************************)
\* the ended sessions holding the exercise that no other such session
\* ended after, among the entries given
LatestEndedWith(exerciseId, entries) ==
    LET ended == {s \in dbSessions :
                     /\ s.endedAt # Undefined
                     /\ \E e \in entries :
                            e.sessionId = s.id /\ e.exerciseId = exerciseId}
    IN  {s \in ended :
            \A o \in ended : InstantOf(o.endedAt) <= InstantOf(s.endedAt)}

\* the prefill the claim names for one source session
PrefillFrom(session, exerciseId, k, entries) ==
    LET work == {e \in entries :
                    /\ e.sessionId = session.id
                    /\ e.exerciseId = exerciseId
                    /\ ~e.isWarmup}
        before(e) == Cardinality({f \in work : f.index < e.index})
        source == IF k < Cardinality(work)
                  THEN CHOOSE e \in work : before(e) = k
                  ELSE CHOOSE e \in work : before(e) = Cardinality(work) - 1
    IN  IF work = {} THEN <<0, 0, "null">>
        ELSE <<source.weight, source.reps, "prefill">>

\* the prefills the claim allows: one per latest ended session
PrefillsAllowed(exerciseId, k, entries) ==
    IF LatestEndedWith(exerciseId, entries) = {}
    THEN {<<0, 0, "null">>}
    ELSE {PrefillFrom(s, exerciseId, k, entries) :
             s \in LatestEndedWith(exerciseId, entries)}

C21_PrefillFromLastEndedSession ==
    /\ \A exerciseId \in SessionExerciseIds, k \in 0..MaxSets :
           \A history \in getLastCompletedSessionForExercise(exerciseId) :
               LET prefill == getSetInputPrefillFromLastSession(history, k)
               IN  (IF prefill = Null THEN <<0, 0, "null">>
                    ELSE <<prefill.weight, prefill.reps, "prefill">>)
                       \in PrefillsAllowed(exerciseId, k, setEntries)
    /\ listing.kind = "prefilled"
       => \E allowed \in PrefillsAllowed(listing.entry.exerciseId,
                                         listing.entry.index,
                                         setEntries \ {listing.entry}) :
              /\ listing.entry.weight = allowed[1]
              /\ listing.entry.reps = allowed[2]

\* a set prefilled at index 1 from an ended session with two differing work
\* sets, while an unended session holds the new set and its predecessor
C21_Witness ==
    /\ listing.kind = "prefilled"
    /\ listing.entry.index = 1
    /\ listing.entry.weight = 31
    /\ listing.entry.reps = 2
    /\ \E s \in dbSessions :
           /\ s.id = listing.entry.sessionId
           /\ s.endedAt = Undefined
    /\ \E s \in dbSessions :
           /\ s.endedAt # Undefined
           /\ \E e \in setEntries :
                  e.sessionId = s.id /\ e.exerciseId = listing.entry.exerciseId

(***************************************************************************)
(* C22: importFullExportData is all or nothing.  After a failed call the   *)
(* four tables hold what they held before it; after a successful one they  *)
(* hold the payload's records and nothing else; no mixture is left behind. *)
(***************************************************************************)
C22_ImportAllOrNothing ==
    /\ tx.step = "aborted" => tablesNow = tx.before
    /\ tx.step = "committed"
       => \A name \in TableNames : tablesNow[name] = Range(tx.data[name])

\* the last bulkAdd was rejected after three tables had been rewritten in
\* the transaction, and the tables hold an earlier import
C22_Witness ==
    /\ tx.step = "aborted"
    /\ tx.added = 3
    /\ tx.working.exercises # tx.before.exercises
    /\ tx.before.exercises # {}
    /\ tx.before.setEntries # {}

(***************************************************************************)
(* C23: readPreferences returns well-formed preferences whatever the       *)
(* preferences item holds: the defaults when there is no item, when it is  *)
(* no JSON or when it is not an object; otherwise each field comes from    *)
(* the item if it is valid there (a unit lb or kg; a finite increment,     *)
(* raised to 0.1 at least; a boolean flag; finite rest seconds, rounded    *)
(* and raised to 0 at least) and is the default if not.                    *)
(***************************************************************************)
WellFormedPreferences(preferences) ==
    /\ DOMAIN preferences = FieldNames
    /\ preferences.defaultUnit \in {"lb", "kg"}
    /\ preferences.defaultWeightIncrement \in Int
    /\ preferences.defaultWeightIncrement >= 1
    /\ preferences.restTimerEnabled \in BOOLEAN
    /\ preferences.restSeconds \in Nat
    /\ preferences.restSeconds % 10 = 0

\* the whole number nearest to a number of tenths, the upper one of two
NearestWhole(tenths) ==
    CHOOSE n \in {10 * k : k \in -100..200} :
        /\ n - tenths <= 5
        /\ tenths - n < 5

\* the field of the stored object, or undefined when there is none
StoredField(name) ==
    LET value == localStorage[PREFERENCES_KEY].value
    IN  IF name \in DOMAIN value.fields THEN value.fields[name] ELSE JsUndefined

C23_ReadPreferencesWellFormed ==
    ioResult.kind = "readPreferences" =>
        LET read == ioResult.value
            stored == getItem(PREFERENCES_KEY)
        IN  /\ WellFormedPreferences(read)
            /\ IF \/ stored = Null
                  \/ stored.kind # "json"
                  \/ stored.value.t # "object"
               THEN read = defaultPreferences
               ELSE /\ read.defaultUnit =
                          IF StoredField("defaultUnit")
                                 \in {JsonString("lb"), JsonString("kg")}
                          THEN StoredField("defaultUnit").v ELSE "lb"
                    /\ LET increment == StoredField("defaultWeightIncrement")
                       IN  read.defaultWeightIncrement =
                               IF increment.t = "number" /\ increment.finite
                               THEN (IF increment.tenths < 1 THEN 1
                                     ELSE increment.tenths)
                               ELSE 50
                    /\ read.restTimerEnabled =
                          IF StoredField("restTimerEnabled").t = "boolean"
                          THEN StoredField("restTimerEnabled").v ELSE TRUE
                    /\ LET seconds == StoredField("restSeconds")
                       IN  read.restSeconds =
                               IF seconds.t = "number" /\ seconds.finite
                               THEN (IF NearestWhole(seconds.tenths) < 0 THEN 0
                                     ELSE NearestWhole(seconds.tenths))
                               ELSE 900

\* a read of an object that holds a valid unit, an increment below the
\* floor, an invalid flag and rest seconds half way between two integers
C23_Witness ==
    /\ ioResult.kind = "readPreferences"
    /\ getItem(PREFERENCES_KEY) # Null
    /\ getItem(PREFERENCES_KEY).kind = "json"
    /\ getItem(PREFERENCES_KEY).value.t = "object"
    /\ StoredField("defaultUnit") = JsonString("kg")
    /\ StoredField("defaultWeightIncrement") = JsonNumber(0)
    /\ StoredField("restTimerEnabled") = JsonString("yes")
    /\ StoredField("restSeconds") = JsonNumber(455)
    /\ ioResult.value = [defaultUnit |-> "kg", defaultWeightIncrement |-> 1,
                         restTimerEnabled |-> TRUE, restSeconds |-> 460]

(***************************************************************************)
(* C24: the selected routine round-trips through local storage.  A read    *)
(* returns '' when nothing was ever written, the id of the latest write    *)
(* when that id is not empty, whatever else was stored or read since, and  *)
(* '' after a write of '', which removes the item.                         *)
(***************************************************************************)
C24_SelectedRoutineRoundTrip ==
    /\ ioResult.kind = "readSelectedRoutineId"
       => ioResult.value = (IF lastWrite = "never" THEN "" ELSE lastWrite)
    /\ lastWrite \in {"never", ""} => selectedRoutineIdKey \notin DOMAIN localStorage
    /\ lastWrite \notin {"never", ""}
       => /\ selectedRoutineIdKey \in DOMAIN localStorage
          /\ localStorage[selectedRoutineIdKey] = Chars(lastWrite)

\* a read that returns the id written, with a preferences item stored
C24_Witness ==
    /\ ioResult.kind = "readSelectedRoutineId"
    /\ ioResult.value = "r2"
    /\ PREFERENCES_KEY \in DOMAIN localStorage

(***************************************************************************)
(* C25: double progression makes progress.  From workSetsTarget completed  *)
(* work sets at one weight W with reps in 0..repMax, logging each session  *)
(* as suggested leads, after no more add_reps suggestions than the reps    *)
(* missing to repMax at the start, to increase_weight with weight          *)
(* W + weightIncrement and nextReps all repMin; until then no set's reps   *)
(* leave 0..repMax or decrease.                                            *)
(***************************************************************************)
C25_RepsStayAndBoundHolds ==
    pc \in {"logging", "increased", "stalled"} =>
        /\ pc # "stalled"
        /\ operands[2] <= operands[1]
        /\ \A i \in 1..Len(sets) :
               /\ sets[i].reps \in 0..settings.repMax
               /\ sets[i].weight = operands[3]
               /\ again # NoResult => sets[i].reps >= again.sets[i].reps
        /\ pc = "logging" /\ result # NoResult => result.kind = "add_reps"
        /\ pc = "increased" =>
               /\ result.kind = "increase_weight"
               /\ result.suggestedWeight = operands[3] + settings.weightIncrement
               /\ result.nextReps = [i \in 1..settings.workSetsTarget |->
                                        settings.repMin]

C25_DoubleProgressionProgresses ==
    /\ []C25_RepsStayAndBoundHolds
    /\ (pc = "logging") ~> (pc = "increased")

\* the weight went up after fewer add_reps suggestions than reps were missing
C25_Witness ==
    /\ pc = "increased"
    /\ operands[2] >= 2
    /\ operands[2] < operands[1]

(***************************************************************************)
(* C26: completion implies an actionable suggestion.  Whenever             *)
(* isExerciseComplete is true of a config and a set list,                  *)
(* buildProgressionSuggestion of the same arguments is neither null nor    *)
(* collect_more_sets, and the sets it considers are the first              *)
(* workSetsTarget non-warm-up sets, the ones isExerciseComplete checked.   *)
(***************************************************************************)
C26_CompleteImpliesActionable ==
    ReturnedFrom("buildProgressionSuggestion") /\ isExerciseComplete(settings, sets)
    => /\ result # Null
       /\ result.kind \in {"add_reps", "increase_weight"}
       /\ ConsideredPositions = TargetWorkPositions
       /\ completedWorkSetsOf(settings, sets) =
              [k \in 1..settings.workSetsTarget |->
                  sets[NthOf(TargetWorkPositions, k)]]
       /\ Len(result.nextReps) = settings.workSetsTarget

\* a complete exercise whose list starts with a warm-up gets add_reps
C26_Witness ==
    /\ ReturnedFrom("buildProgressionSuggestion")
    /\ isExerciseComplete(settings, sets)
    /\ Len(sets) = 2
    /\ sets[1].isWarmup
    /\ result # Null
    /\ result.kind = "add_reps"

(***************************************************************************)
(* C27: set indices stay unique and gap-free per session and exercise:     *)
(* after any interleaving of addSetEntry, addSetWithPrefill and            *)
(* copyPreviousSet calls no two stored entries of one session and exercise *)
(* have the same index, and the indices are exactly 0..n-1.                *)
(***************************************************************************)
EntriesOf(sessionId, exerciseId) ==
    {e \in setEntries : e.sessionId = sessionId /\ e.exerciseId = exerciseId}

C27_IndicesUniqueAndGapFree ==
    \A session \in dbSessions, exerciseId \in SessionExerciseIds :
        LET entries == EntriesOf(session.id, exerciseId)
        IN  /\ \A a, b \in entries : a.index = b.index => a = b
            /\ {e.index : e \in entries} = 0..(Cardinality(entries) - 1)

(***************************************************************************)
(* C28: a rejected import changes nothing.  For text that is no JSON or    *)
(* that fails validation applyJsonImport raises an 'Import failed' error   *)
(* before any table is cleared or written and before the preferences are   *)
(* written; the preferences are written only once the data import has      *)
(* completed successfully.                                                 *)
(***************************************************************************)
C28_RejectedImportChangesNothing ==
    /\ "text" \in DOMAIN tx /\ tx.text \in InvalidTexts
       => /\ tx.step = "none"
          /\ ioResult.kind = "error"
          /\ ioResult.prefix = "Import failed"
          /\ tablesNow = tx.before
          /\ localStorage = tx.storage
    /\ "text" \in DOMAIN tx /\ tx.text \in ValidTexts
       => /\ ioResult.kind = "error" => ioResult.prefix # "Import failed"
          /\ tx.step # "done" => localStorage = tx.storage
          /\ tx.step = "done"
             => /\ \A name \in TableNames : tablesNow[name] = Range(tx.data[name])
                /\ localStorage =
                       [k \in DOMAIN tx.storage \cup {PREFERENCES_KEY} |->
                           IF k = PREFERENCES_KEY
                           THEN stringifyPreferences(tx.preferences)
                           ELSE tx.storage[k]]

\* a file with a set entry whose index is no integer is rejected while the
\* tables and the preferences hold an earlier import
C28_Witness ==
    /\ "text" \in DOMAIN tx
    /\ tx.text \in InvalidTexts
    /\ tx.text.kind = "json"
    /\ validatePayload(tx.text.value).detail = "a record has an invalid field."
    /\ ioResult.kind = "error"
    /\ exercises # {}
    /\ setEntries # {}
    /\ PREFERENCES_KEY \in DOMAIN localStorage

(***************************************************************************)
(* C29: in every summary of summarizeExerciseHistory each retained         *)
(* session's bestEstimatedOneRepMax is at least the estimated one-rep-max  *)
(* of every non-warm-up set of that session, and when bestRecentSet is not *)
(* none its estimate equals the greatest bestEstimatedOneRepMax of the     *)
(* retained sessions.                                                      *)
(***************************************************************************)
C29_BestDominatesWorkSets ==
    ReturnedFrom("summarizeExerciseHistory")
    => /\ Len(result.sessions) = RetainedCount
       /\ \A k \in 1..RetainedCount :
              \A j \in WorkPositionsOf(Retained(k)) :
                  result.sessions[k].bestEstimatedOneRepMax
                      >= OneRepMaxOf(Retained(k).sets[j])
       /\ result.bestRecentSet # Null
              => /\ \A k \in 1..RetainedCount :
                        result.sessions[k].bestEstimatedOneRepMax
                            <= OneRepMaxOf(result.bestRecentSet)
                 /\ \E k \in 1..RetainedCount :
                        result.sessions[k].bestEstimatedOneRepMax
                            = OneRepMaxOf(result.bestRecentSet)

\* two retained sessions; the better set is the second set of the second
\* session
C29_Witness ==
    /\ ReturnedFrom("summarizeExerciseHistory")
    /\ RetainedCount = 2
    /\ WorkPositionsOf(Retained(2)) = {1, 2}
    /\ OneRepMaxOf(Retained(2).sets[1]) < OneRepMaxOf(Retained(2).sets[2])
    /\ result.bestRecentSet = Retained(2).sets[2]
    /\ result.sessions[2].bestEstimatedOneRepMax
           > result.sessions[1].bestEstimatedOneRepMax

(***************************************************************************)
(* C30: shouldCloseHistorySheetAfterDrag(dragOffset, threshold) is true    *)
(* exactly when dragOffset is finite and dragOffset >= threshold, the      *)
(* threshold being 96 when none is given: 96 closes, 95 does not, and an   *)
(* offset that is not finite never closes the sheet.                       *)
(***************************************************************************)
C30_ClosesAtThreshold ==
    ioResult.kind = "shouldCloseHistorySheetAfterDrag"
    => LET offset == ioResult.dragOffset
           threshold == IF ioResult.closeThreshold = JsUndefined
                        THEN Finite(96) ELSE ioResult.closeThreshold
       IN  /\ ioResult.value
               <=> /\ offset.kind = "finite"
                   /\ \/ threshold.kind = "-Infinity"
                      \/ /\ threshold.kind = "finite"
                         /\ offset.value >= threshold.value
           /\ offset.kind # "finite" => ~ioResult.value
           /\ ioResult.closeThreshold = JsUndefined /\ offset = Finite(96)
                  => ioResult.value
           /\ ioResult.closeThreshold = JsUndefined /\ offset = Finite(95)
                  => ~ioResult.value

\* a drag of exactly 96 with no threshold given closes the sheet
C30_Witness ==
    /\ ioResult.kind = "shouldCloseHistorySheetAfterDrag"
    /\ ioResult.closeThreshold = JsUndefined
    /\ ioResult.dragOffset = Finite(96)
    /\ ioResult.value

====
